---- MODULE Spec2Model ----
(***************************************************************************)
(* Model of figma-token-sync: the OutputWriter (change-detecting sink),   *)
(* the FigmaExtractor (style resolution, tokenization, extraction) and    *)
(* the DesignTokenSync driver.                                             *)
(*                                                                         *)
(* Conventions.  An optional JavaScript value (undefined / absent file /   *)
(* missing map entry) is a sequence of length 0 or 1: None or Some(v).     *)
(* Text is the sequence of its lines (the argument of join('\n')), a line   *)
(* is a string.  Names that the code inspects character by character are  *)
(* sequences of one-character strings; Str joins them into a string.      *)
(***************************************************************************)
EXTENDS Integers, Sequences, FiniteSets, TLC

VARIABLES
    previousHashes, \* OutputWriter.previousHashes : path -> optional digest
    files,          \* the file system: path -> optional content
    dirs,           \* the directories that exist
    calls,          \* the frames of the OutputWriter calls in flight, per slot
    opCount,        \* number of OutputWriter calls started (bounds the run)
    lastOp,         \* history: the last completed OutputWriter call
    lastWritten,    \* history: path -> content of the last fs.writeFile that succeeded
    round0,         \* history: files and previousHashes when the writer was last quiescent
    config,         \* the SyncConfig given to the constructor
    now,            \* the wall clock, in milliseconds
    remote,         \* what the Figma API serves: the file and the published styles
    exPc,           \* FigmaExtractor.extract(): where the call stands
    fileData,       \* extract(): the result of getFileData(), once fetched
    styles,         \* extract(): the result of getStyles(), once fetched
    rawTokens,      \* the token set extract() resolved with
    exError,        \* the error extract() rejected with
    responses,      \* history: response.ok of the fetches of this extract() call
    exCalls,        \* history: number of extract() calls made
    resolved,       \* history: what findNodeByStyleId returned for each style looked up
    syncPc,         \* DesignTokenSync.sync(): where the call stands
    syncFormat,     \* sync(): the format whose write is awaited
    syncTokens,     \* sync(): its local rawTokens
    syncError,      \* the error sync() rejected with
    log,            \* the console.log lines of the current sync() call
    run,            \* history: what the current sync() call has done
    prev            \* history: what the sync() call before it did

writerVars == <<previousHashes, files, dirs, calls, opCount, lastOp, lastWritten, round0>>
envVars == <<config, now, remote>>
exVars == <<exPc, fileData, styles, rawTokens, exError, responses, exCalls, resolved>>
syncVars == <<syncPc, syncFormat, syncTokens, syncError, log, run, prev>>

vars == <<writerVars, envVars, exVars, syncVars>>

\* what the OutputWriter never touches
nonWriterVars == <<envVars, exVars, syncVars>>

\* what the FigmaExtractor never touches
nonExtractorVars == <<writerVars, envVars, syncVars>>

None == <<>>
Some(v) == <<v>>

----------------------------------------------------------------------------
(* Bounds *)

MaxOps == 3

----------------------------------------------------------------------------
(* Paths and contents *)

\* a path is <<directory, file name>>
CssPath      == <<"tokens", "variables.css">>
TailwindPath == <<"tokens", "tailwind.config.js">>
JsonPath     == <<"tokens", "tokens.json">>
ScssPath     == <<"styles", "_variables.scss">>

Paths == {CssPath, TailwindPath, JsonPath, ScssPath}

\* the destinations the writer specifications call write() with
WriterPaths == {CssPath, JsonPath}

dirname(filePath) == filePath[1]

\* Two distinct ASCII texts with the same MD5 digest
\* (faad49866e9498fc1719f5289e7a0269).
CollisionA == <<"TEXTCOLLBYfGiJUETHQ4hAcKSMd5zYpgqf1YRDhkmxHkhPWptrkoyz28wnI9V0aHeAuaKnak">>
CollisionB == <<"TEXTCOLLBYfGiJUETHQ4hEcKSMd5zYpgqf1YRDhkmxHkhPWptrkoyz28wnI9V0aHeAuaKnak">>

TextA == <<":root {", "}">>
TextB == <<":root {", "  --color-primary: #ff0000;", "}">>

\* the contents the writer specifications call write() with
WriterContents == {TextA, TextB, CollisionA, CollisionB}

\* what a failed fs.writeFile may leave behind: the file was opened with
\* truncation and nothing was written
EmptyContent == <<>>

\* createHash('md5').update(content).digest('hex'): a digest is named by one
\* content that has it; MD5 is injective on the contents of the model except
\* on the known colliding pair.
hashContent(content) ==
    <<"md5", IF content = CollisionB THEN CollisionA ELSE content>>

----------------------------------------------------------------------------
(* OutputWriter call frames *)

Slots == {1, 2}

IdleFrame ==
    [op |-> "none", pc |-> "idle", filePath |-> CssPath, content |-> EmptyContent,
     newHash |-> None, result |-> FALSE, prior |-> None, overlap |-> FALSE]

NoOp == [op |-> "none", filePath |-> CssPath, content |-> EmptyContent,
         threw |-> FALSE, result |-> FALSE, newHash |-> None]

InFlight(i) == calls[i].pc \notin {"idle", "returned", "threw"}
Finished(i) == calls[i].pc \in {"returned", "threw"}
Quiescent == \A i \in Slots : calls[i].pc = "idle"

\* write(filePath, content) is invoked by a caller that is not awaiting
\* another call in this slot: the synchronous prefix computes the directory
\* and issues fs.mkdir.
WriteCall(i, filePath, content) ==
    /\ ~InFlight(i)
    /\ calls' = [j \in Slots |->
                    IF j = i
                      THEN [op |-> "write", pc |-> "mkdir", filePath |-> filePath,
                            content |-> content, newHash |-> None, result |-> FALSE,
                            prior |-> lastWritten[filePath],
                            overlap |-> \E k \in Slots : InFlight(k)]
                      ELSE [calls[j] EXCEPT !.overlap = @ \/ InFlight(j)]]
    /\ opCount' = opCount + 1
    /\ round0' = IF Quiescent
                    THEN [files |-> files, previousHashes |-> previousHashes]
                    ELSE round0
    /\ UNCHANGED <<previousHashes, files, dirs, lastOp, lastWritten>>

\* await fs.mkdir(dir, { recursive: true }) settles: the directory exists
\* afterwards, or the promise rejects and write() rejects with it.
WriteMkdir(i) ==
    /\ calls[i].op = "write"
    /\ calls[i].pc = "mkdir"
    /\ \/ /\ dirs' = dirs \cup {dirname(calls[i].filePath)}
          /\ calls' = [calls EXCEPT ![i].pc = "check"]
       \/ /\ dirs' = dirs
          /\ calls' = [calls EXCEPT ![i].pc = "threw"]
    /\ UNCHANGED <<previousHashes, files, opCount, lastOp, lastWritten, round0>>
    /\ UNCHANGED nonWriterVars

\* a guard that falls back on the file on disk when no hash is recorded
WriteCheckAgainstDisk(i) ==
    /\ calls[i].op = "write"
    /\ calls[i].pc = "check"
    /\ LET newHash == hashContent(calls[i].content)
           onDisk  == files[calls[i].filePath]
           oldHash == IF previousHashes[calls[i].filePath] # None
                        THEN previousHashes[calls[i].filePath]
                        ELSE IF onDisk # None THEN Some(hashContent(onDisk[1])) ELSE None
       IN  IF oldHash = Some(newHash)
             THEN calls' = [calls EXCEPT ![i].pc = "returned",
                                         ![i].result = FALSE,
                                         ![i].newHash = Some(newHash)]
             ELSE calls' = [calls EXCEPT ![i].pc = "writeFile",
                                         ![i].newHash = Some(newHash)]
    /\ UNCHANGED <<previousHashes, files, dirs, opCount, lastOp, lastWritten, round0>>
    /\ UNCHANGED nonWriterVars

\* the continuation after mkdir: hash, compare with the recorded hash, and
\* either return false or issue fs.writeFile.
WriteCheck(i) ==
    /\ calls[i].op = "write"
    /\ calls[i].pc = "check"
    /\ LET newHash == hashContent(calls[i].content)
           oldHash == previousHashes[calls[i].filePath]
       IN  IF oldHash = Some(newHash)
             THEN calls' = [calls EXCEPT ![i].pc = "returned",
                                         ![i].result = FALSE,
                                         ![i].newHash = Some(newHash)]
             ELSE calls' = [calls EXCEPT ![i].pc = "writeFile",
                                         ![i].newHash = Some(newHash)]
    /\ UNCHANGED <<previousHashes, files, dirs, opCount, lastOp, lastWritten, round0>>
    /\ UNCHANGED nonWriterVars

\* a write that records the hash before fs.writeFile settles: the hash is in
\* the map whether the file was written or not
WriteFileRecordFirst(i) ==
    /\ calls[i].op = "write"
    /\ calls[i].pc = "writeFile"
    /\ previousHashes' = [previousHashes EXCEPT ![calls[i].filePath] = calls[i].newHash]
    /\ \/ /\ files' = [files EXCEPT ![calls[i].filePath] = Some(calls[i].content)]
          /\ lastWritten' = [lastWritten EXCEPT ![calls[i].filePath] = Some(calls[i].content)]
          /\ calls' = [calls EXCEPT ![i].pc = "set"]
       \/ /\ files' \in {files, [files EXCEPT ![calls[i].filePath] = Some(EmptyContent)]}
          /\ lastWritten' = lastWritten
          /\ calls' = [calls EXCEPT ![i].pc = "threw"]
    /\ UNCHANGED <<dirs, opCount, lastOp, round0>>
    /\ UNCHANGED nonWriterVars

\* await fs.writeFile(filePath, content, 'utf-8') settles: the file holds the
\* content, or the promise rejects, leaving the file as it was or truncated.
WriteFile(i) ==
    /\ calls[i].op = "write"
    /\ calls[i].pc = "writeFile"
    /\ \/ /\ files' = [files EXCEPT ![calls[i].filePath] = Some(calls[i].content)]
          /\ lastWritten' = [lastWritten EXCEPT ![calls[i].filePath] = Some(calls[i].content)]
          /\ calls' = [calls EXCEPT ![i].pc = "set"]
       \/ /\ files' \in {files, [files EXCEPT ![calls[i].filePath] = Some(EmptyContent)]}
          /\ lastWritten' = lastWritten
          /\ calls' = [calls EXCEPT ![i].pc = "threw"]
    /\ UNCHANGED <<previousHashes, dirs, opCount, lastOp, round0>>
    /\ UNCHANGED nonWriterVars

\* a map keyed by directory: the hash is recorded for every destination of
\* the directory
WriteSetByDirectory(i) ==
    /\ calls[i].op = "write"
    /\ calls[i].pc = "set"
    /\ previousHashes' = [p \in Paths |->
                             IF dirname(p) = dirname(calls[i].filePath)
                               THEN calls[i].newHash ELSE previousHashes[p]]
    /\ calls' = [calls EXCEPT ![i].pc = "returned", ![i].result = TRUE]
    /\ UNCHANGED <<files, dirs, opCount, lastOp, lastWritten, round0>>
    /\ UNCHANGED nonWriterVars

\* the continuation after writeFile: record the hash and return true.
WriteSet(i) ==
    /\ calls[i].op = "write"
    /\ calls[i].pc = "set"
    /\ previousHashes' = [previousHashes EXCEPT ![calls[i].filePath] = calls[i].newHash]
    /\ calls' = [calls EXCEPT ![i].pc = "returned", ![i].result = TRUE]
    /\ UNCHANGED <<files, dirs, opCount, lastOp, lastWritten, round0>>
    /\ UNCHANGED nonWriterVars

\* loadExistingHash(filePath) is invoked: it issues fs.readFile.
LoadCall(i, filePath) ==
    /\ ~InFlight(i)
    /\ calls' = [calls EXCEPT ![i] =
                    [op |-> "load", pc |-> "readFile", filePath |-> filePath,
                     content |-> EmptyContent, newHash |-> None, result |-> FALSE,
                     prior |-> lastWritten[filePath], overlap |-> FALSE]]
    /\ opCount' = opCount + 1
    /\ round0' = IF Quiescent
                    THEN [files |-> files, previousHashes |-> previousHashes]
                    ELSE round0
    /\ UNCHANGED <<previousHashes, files, dirs, lastOp, lastWritten>>

\* await fs.readFile settles: the content is read, or the rejection is caught
\* and loadExistingHash returns without recording anything.
LoadRead(i) ==
    /\ calls[i].op = "load"
    /\ calls[i].pc = "readFile"
    /\ \/ /\ files[calls[i].filePath] # None
          /\ calls' = [calls EXCEPT ![i].pc = "loadSet",
                                    ![i].content = files[calls[i].filePath][1]]
       \/ /\ calls' = [calls EXCEPT ![i].pc = "returned"]
    /\ UNCHANGED <<previousHashes, files, dirs, opCount, lastOp, lastWritten, round0>>
    /\ UNCHANGED nonWriterVars

\* the continuation after readFile: record the hash of what was read.
LoadSet(i) ==
    /\ calls[i].op = "load"
    /\ calls[i].pc = "loadSet"
    /\ previousHashes' = [previousHashes EXCEPT
                             ![calls[i].filePath] = Some(hashContent(calls[i].content))]
    /\ calls' = [calls EXCEPT ![i].pc = "returned"]
    /\ UNCHANGED <<files, dirs, opCount, lastOp, lastWritten, round0>>
    /\ UNCHANGED nonWriterVars

\* the caller takes the settled promise; the slot is free again.
WriterReturn(i) ==
    /\ Finished(i)
    /\ lastOp' = [op |-> calls[i].op, filePath |-> calls[i].filePath,
                  content |-> calls[i].content, threw |-> calls[i].pc = "threw",
                  result |-> calls[i].result, newHash |-> calls[i].newHash]
    /\ calls' = [calls EXCEPT ![i] = IdleFrame]
    /\ UNCHANGED <<previousHashes, files, dirs, opCount, lastWritten, round0>>
    /\ UNCHANGED nonWriterVars

\* new OutputWriter(): an empty map.  The files of an earlier process run may
\* be on disk.
WriterInit ==
    /\ previousHashes = [p \in Paths |-> None]
    /\ files \in [Paths -> {None, Some(TextA)}]
    /\ \A p \in Paths \ WriterPaths : files[p] = None
    /\ dirs = {dirname(p) : p \in {q \in Paths : files[q] # None}}
    /\ calls = [i \in Slots |-> IdleFrame]
    /\ opCount = 0
    /\ lastOp = NoOp
    /\ lastWritten = [p \in Paths |-> None]
    /\ round0 = [files |-> files, previousHashes |-> previousHashes]

----------------------------------------------------------------------------
(* JavaScript values used by the extractor *)

\* A JavaScript number is kept in thousandths (fixed point), so that
\* Math.round and fractional opacities are computed, not assumed.
Milli(n) == n * 1000

\* Math.round(x): the nearest integer, halves towards +Infinity
MathRound(x) == ((x + 500) \div 1000) * 1000

\* String.prototype.toLowerCase on the characters of the model
UpperChars == <<"A", "B", "C", "D", "E", "F", "G", "H", "I", "J", "K", "L", "M",
                "N", "O", "P", "Q", "R", "S", "T", "U", "V", "W", "X", "Y", "Z", "É">>
LowerChars == <<"a", "b", "c", "d", "e", "f", "g", "h", "i", "j", "k", "l", "m",
                "n", "o", "p", "q", "r", "s", "t", "u", "v", "w", "x", "y", "z", "é">>

toLowerCase(str) ==
    [i \in 1..Len(str) |->
        IF \E j \in 1..Len(UpperChars) : UpperChars[j] = str[i]
          THEN LowerChars[CHOOSE j \in 1..Len(UpperChars) : UpperChars[j] = str[i]]
          ELSE str[i]]

DigitChars == <<"0", "1", "2", "3", "4", "5", "6", "7", "8", "9">>
IsDigit(c) == \E j \in 1..10 : DigitChars[j] = c
DigitVal(c) == (CHOOSE j \in 1..10 : DigitChars[j] = c) - 1

\* /\s/ and /[a-z0-9-]/ on the characters of the model
IsSpace(c) == c \in {" ", "\t", "\n"}
IsKeyChar(c) ==
    \/ c = "-"
    \/ IsDigit(c)
    \/ \E j \in 1..26 : LowerChars[j] = c

\* replace every run of characters satisfying Test by one `by`
RECURSIVE CollapseRuns(_, _, _)
CollapseRuns(str, Test(_), by) ==
    IF str = <<>> THEN <<>>
    ELSE IF Test(str[1])
      THEN IF Len(str) > 1 /\ Test(str[2])
             THEN CollapseRuns(Tail(str), Test, by)
             ELSE <<by>> \o CollapseRuns(Tail(str), Test, by)
      ELSE <<str[1]>> \o CollapseRuns(Tail(str), Test, by)

IsHyphen(c) == c = "-"

\* a tokenizer without the last replace: edge hyphens are kept
tokenizeNameUntrimmed(name) ==
    LET lower     == toLowerCase(name)
        slashes   == [i \in 1..Len(lower) |-> IF lower[i] = "/" THEN "-" ELSE lower[i]]
        spaces    == CollapseRuns(slashes, IsSpace, "-")
        stripped  == SelectSeq(spaces, IsKeyChar)
    IN  CollapseRuns(stripped, IsHyphen, "-")

\* tokenizeName: the canonical key of a display name
tokenizeName(name) ==
    LET lower     == toLowerCase(name)
        slashes   == [i \in 1..Len(lower) |-> IF lower[i] = "/" THEN "-" ELSE lower[i]]
        spaces    == CollapseRuns(slashes, IsSpace, "-")
        stripped  == SelectSeq(spaces, IsKeyChar)
        collapsed == CollapseRuns(stripped, IsHyphen, "-")
        noLead    == IF collapsed # <<>> /\ collapsed[1] = "-"
                       THEN Tail(collapsed) ELSE collapsed
        noTrail   == IF noLead # <<>> /\ noLead[Len(noLead)] = "-"
                       THEN SubSeq(noLead, 1, Len(noLead) - 1) ELSE noLead
    IN  noTrail

\* Number.prototype.toString(16).padStart(2, '0') of a channel byte
HexChars == <<"0", "1", "2", "3", "4", "5", "6", "7", "8", "9",
              "a", "b", "c", "d", "e", "f">>

RECURSIVE ToHex(_)
ToHex(n) == IF n < 16 THEN <<HexChars[n + 1]>>
            ELSE ToHex(n \div 16) \o <<HexChars[(n % 16) + 1]>>

PadStart2(str) == IF Len(str) < 2 THEN <<"0">> \o str ELSE str

\* Math.round(channel * 255), as an integer
ChannelByte(channel) == MathRound(channel * 255) \div 1000

figmaColorToHex(color) ==
    <<"#">> \o PadStart2(ToHex(ChannelByte(color.r)))
            \o PadStart2(ToHex(ChannelByte(color.g)))
            \o PadStart2(ToHex(ChannelByte(color.b)))

\* Number.prototype.toString of a non-negative integer, as characters
RECURSIVE DecimalChars(_)
DecimalChars(n) == IF n < 10 THEN <<DigitChars[n + 1]>>
                   ELSE DecimalChars(n \div 10) \o <<DigitChars[(n % 10) + 1]>>

\* the decimal text of a number kept in thousandths
RECURSIVE StripZeros(_)
StripZeros(digits) ==
    IF digits # <<>> /\ digits[Len(digits)] = "0"
      THEN StripZeros(SubSeq(digits, 1, Len(digits) - 1))
      ELSE digits

NumberText(x) ==
    LET abs   == IF x < 0 THEN -x ELSE x
        whole == abs \div 1000
        frac  == abs % 1000
        fdig  == StripZeros(<<DigitChars[(frac \div 100) + 1],
                              DigitChars[((frac \div 10) % 10) + 1],
                              DigitChars[(frac % 10) + 1]>>)
    IN  (IF x < 0 THEN <<"-">> ELSE <<>>)
        \o DecimalChars(whole)
        \o (IF fdig = <<>> THEN <<>> ELSE <<".">> \o fdig)

figmaColorToRgba(color) ==
    LET a == IF color.a = None THEN Milli(1) ELSE color.a[1]
    IN  <<"rgba(">> \o DecimalChars(ChannelByte(color.r)) \o <<", ">>
        \o DecimalChars(ChannelByte(color.g)) \o <<", ">>
        \o DecimalChars(ChannelByte(color.b)) \o <<", ">>
        \o NumberText(a) \o <<")">>

mapEffectType(figmaType) ==
    CASE figmaType \in {"DROP_SHADOW", "INNER_SHADOW"}    -> "shadow"
      [] figmaType \in {"LAYER_BLUR", "BACKGROUND_BLUR"} -> "blur"
      [] OTHER                                            -> "shadow"

----------------------------------------------------------------------------
(* Record<string, T>: an object as the sequence of its <<key, value>>       *)
(* entries in Object.entries order: array-index keys first, ascending,      *)
(* then the other keys in insertion order.                                  *)

MaxIndexDigits == <<"4", "2", "9", "4", "9", "6", "7", "2", "9", "4">>

RECURSIVE DigitsLess(_, _)
DigitsLess(a, b) ==
    IF a = <<>> THEN FALSE
    ELSE IF DigitVal(a[1]) # DigitVal(b[1]) THEN DigitVal(a[1]) < DigitVal(b[1])
    ELSE DigitsLess(Tail(a), Tail(b))

NumLess(a, b) == Len(a) < Len(b) \/ (Len(a) = Len(b) /\ DigitsLess(a, b))

IsArrayIndex(key) ==
    /\ key # <<>>
    /\ \A i \in 1..Len(key) : IsDigit(key[i])
    /\ key[1] = "0" => Len(key) = 1
    /\ ~NumLess(MaxIndexDigits, key)

MapHas(m, key) == \E i \in 1..Len(m) : m[i][1] = key
MapGet(m, key) == m[CHOOSE i \in 1..Len(m) : m[i][1] = key][2]
MapKeys(m) == [i \in 1..Len(m) |-> m[i][1]]

MapSet(m, key, value) ==
    IF MapHas(m, key)
      THEN [i \in 1..Len(m) |-> IF m[i][1] = key THEN <<key, value>> ELSE m[i]]
    ELSE IF IsArrayIndex(key)
      THEN LET before == Cardinality({i \in 1..Len(m) :
                             IsArrayIndex(m[i][1]) /\ NumLess(m[i][1], key)})
           IN  SubSeq(m, 1, before) \o << <<key, value>> >> \o SubSeq(m, before + 1, Len(m))
    ELSE Append(m, <<key, value>>)

----------------------------------------------------------------------------
(* FigmaExtractor: the resolvers *)

\* a document node; every field is optional
Node(name, bindings, children, fills, style, effects, box) ==
    [name |-> name, styles |-> bindings, children |-> children, fills |-> fills,
     style |-> style, effects |-> effects, absoluteBoundingBox |-> box]

\* a resolver that prefers the shallowest binding node: the children are
\* all tested before any of them is descended into
RECURSIVE findNodeByStyleIdShallowest(_, _)
findNodeByStyleIdShallowest(node, styleId) ==
    LET binds(n)  == /\ n.styles # None
                     /\ \E i \in 1..Len(n.styles[1]) : n.styles[1][i][2] = styleId
        kids      == IF node.children = None THEN <<>> ELSE node.children[1]
        direct    == SelectSeq(kids, binds)
        deeper    == SelectSeq([k \in 1..Len(kids) |->
                                    findNodeByStyleIdShallowest(kids[k], styleId)],
                               LAMBDA found : found # None)
    IN  IF binds(node) THEN Some(node)
        ELSE IF direct # <<>> THEN Some(direct[1])
        ELSE IF deeper # <<>> THEN deeper[1]
        ELSE None

RECURSIVE findNodeByStyleId(_, _)
RECURSIVE findInChildrenByStyleId(_, _)

findInChildrenByStyleId(children, styleId) ==
    IF children = <<>> THEN None
    ELSE LET found == findNodeByStyleId(children[1], styleId)
         IN  IF found # None THEN found
             ELSE findInChildrenByStyleId(Tail(children), styleId)

findNodeByStyleId(node, styleId) ==
    IF /\ node.styles # None
       /\ \E i \in 1..Len(node.styles[1]) : node.styles[1][i][2] = styleId
      THEN Some(node)
    ELSE IF node.children # None
      THEN findInChildrenByStyleId(node.children[1], styleId)
    ELSE None

RECURSIVE findNodeByName(_, _)
RECURSIVE findInChildrenByName(_, _)

findInChildrenByName(children, name) ==
    IF children = <<>> THEN None
    ELSE LET found == findNodeByName(children[1], name)
         IN  IF found # None THEN found
             ELSE findInChildrenByName(Tail(children), name)

findNodeByName(node, name) ==
    IF node.name # None /\ toLowerCase(node.name[1]) = toLowerCase(name)
      THEN Some(node)
    ELSE IF node.children # None
      THEN findInChildrenByName(node.children[1], name)
    ELSE None

----------------------------------------------------------------------------
(* FigmaExtractor: the four categories *)

\* node?.fills?.[0]?.color
FirstFillColor(node) ==
    IF node = None THEN None
    ELSE IF node[1].fills = None THEN None
    ELSE IF node[1].fills[1] = <<>> THEN None
    ELSE node[1].fills[1][1].color

\* node?.style
TextStyleOf(node) == IF node = None THEN None ELSE node[1].style

\* node?.effects?.[0]
FirstEffect(node) ==
    IF node = None THEN None
    ELSE IF node[1].effects = None THEN None
    ELSE IF node[1].effects[1] = <<>> THEN None
    ELSE Some(node[1].effects[1][1])

StylesOfType(styleList, type) == SelectSeq(styleList, LAMBDA st : st.style_type = type)

\* one iteration of the loop over the FILL styles
ColorFromStyle(colors, document, style) ==
    LET node == findNodeByStyleId(document, style.node_id)
    IN  IF FirstFillColor(node) # None
          THEN LET fill == node[1].fills[1][1]
               IN  MapSet(colors, tokenizeName(style.name),
                          [name        |-> style.name,
                           value       |-> figmaColorToHex(fill.color[1]),
                           opacity     |-> IF fill.opacity = None
                                             THEN Some(Milli(1)) ELSE fill.opacity,
                           description |-> Some(style.description),
                           figmaId     |-> Some(style.key)])
          ELSE colors

\* a loop that gives up at the first style that yields no token
RECURSIVE ColorsFromStylesStopAtGap(_, _, _)
ColorsFromStylesStopAtGap(colors, document, colorStyles) ==
    IF colorStyles = <<>> THEN colors
    ELSE IF FirstFillColor(findNodeByStyleId(document, colorStyles[1].node_id)) = None
      THEN colors
    ELSE ColorsFromStylesStopAtGap(ColorFromStyle(colors, document, colorStyles[1]),
                                   document, Tail(colorStyles))

RECURSIVE ColorsFromStyles(_, _, _)
ColorsFromStyles(colors, document, colorStyles) ==
    IF colorStyles = <<>> THEN colors
    ELSE ColorsFromStyles(ColorFromStyle(colors, document, colorStyles[1]),
                          document, Tail(colorStyles))

\* one iteration of the loop over Object.entries(data.variables)
ColorFromVariable(colors, entry) ==
    LET id       == entry[1]
        variable == entry[2]
    IN  IF variable.resolvedType = "COLOR"
          THEN LET value == IF variable.valuesByMode = None THEN None
                            ELSE IF variable.valuesByMode[1] = <<>> THEN None
                            ELSE Some(variable.valuesByMode[1][1][2])
               IN  IF value # None
                     THEN MapSet(colors, tokenizeName(variable.name),
                                 [name        |-> variable.name,
                                  value       |-> figmaColorToHex(value[1]),
                                  opacity     |-> None,
                                  description |-> variable.description,
                                  figmaId     |-> Some(id)])
                     ELSE colors
          ELSE colors

RECURSIVE ColorsFromVariables(_, _)
ColorsFromVariables(colors, entries) ==
    IF entries = <<>> THEN colors
    ELSE ColorsFromVariables(ColorFromVariable(colors, entries[1]), Tail(entries))

extractColorVariables(data, colors) ==
    IF data.variables # None
      THEN ColorsFromVariables(colors, data.variables[1])
      ELSE colors

\* the variables merged before the styles instead of after them
extractColorsVariablesFirst(data, styleList) ==
    ColorsFromStyles(extractColorVariables(data, <<>>), data.document,
                     StylesOfType(styleList, "FILL"))

extractColors(data, styleList) ==
    extractColorVariables(data,
        ColorsFromStyles(<<>>, data.document, StylesOfType(styleList, "FILL")))

\* one iteration of the loop over the TEXT styles
TypographyFromStyle(typography, document, style) ==
    LET node == findNodeByStyleId(document, style.node_id)
    IN  IF TextStyleOf(node) # None
          THEN LET textStyle == node[1].style[1]
               IN  MapSet(typography, tokenizeName(style.name),
                          [name          |-> style.name,
                           fontFamily    |-> textStyle.fontFamily,
                           fontSize      |-> textStyle.fontSize,
                           fontWeight    |-> textStyle.fontWeight,
                           lineHeight    |-> textStyle.lineHeightPx,
                           letterSpacing |-> textStyle.letterSpacing,
                           description   |-> Some(style.description),
                           figmaId       |-> Some(style.key)])
          ELSE typography

RECURSIVE TypographyFromStyles(_, _, _)
TypographyFromStyles(typography, document, textStyles) ==
    IF textStyles = <<>> THEN typography
    ELSE TypographyFromStyles(TypographyFromStyle(typography, document, textStyles[1]),
                              document, Tail(textStyles))

extractTypography(data, styleList) ==
    TypographyFromStyles(<<>>, data.document, StylesOfType(styleList, "TEXT"))

\* one iteration of the loop over the EFFECT styles
EffectFromStyle(effects, document, style) ==
    LET node == findNodeByStyleId(document, style.node_id)
    IN  IF FirstEffect(node) # None
          THEN LET effect == node[1].effects[1][1]
               IN  MapSet(effects, tokenizeName(style.name),
                          [name        |-> style.name,
                           type        |-> mapEffectType(effect.type),
                           value       |->
                               [color   |-> IF effect.color # None
                                              THEN Some(figmaColorToRgba(effect.color[1]))
                                              ELSE None,
                                offsetX |-> IF effect.offset = None THEN 0
                                            ELSE effect.offset[1].x,
                                offsetY |-> IF effect.offset = None THEN 0
                                            ELSE effect.offset[1].y,
                                blur    |-> effect.radius,
                                spread  |-> IF effect.spread = None THEN 0
                                            ELSE effect.spread[1]],
                           description |-> Some(style.description),
                           figmaId     |-> Some(style.key)])
          ELSE effects

RECURSIVE EffectsFromStyles(_, _, _)
EffectsFromStyles(effects, document, effectStyles) ==
    IF effectStyles = <<>> THEN effects
    ELSE EffectsFromStyles(EffectFromStyle(effects, document, effectStyles[1]),
                           document, Tail(effectStyles))

extractEffects(data, styleList) ==
    EffectsFromStyles(<<>>, data.document, StylesOfType(styleList, "EFFECT"))

\* the loop over the children of the "Spacing" frame
RECURSIVE SpacingFromChildren(_, _)
SpacingFromChildren(spacing, children) ==
    IF children = <<>> THEN spacing
    ELSE LET child == children[1]
         IN  SpacingFromChildren(
                 IF child.absoluteBoundingBox # None
                   THEN MapSet(spacing, tokenizeName(child.name[1]),
                               [name        |-> child.name[1],
                                value       |-> MathRound(child.absoluteBoundingBox[1].width),
                                description |-> <<"Spacing unit: ">> \o child.name[1]])
                   ELSE spacing,
                 Tail(children))

defaultScale == <<0, 4, 8, 12, 16, 20, 24, 32, 40, 48, 64, 80, 96, 128>>

\* defaultScale.forEach((value, index) => spacing[`space-${index}`] = ...)
RECURSIVE DefaultSpacing(_, _)
DefaultSpacing(spacing, index) ==
    IF index >= Len(defaultScale) THEN spacing
    ELSE DefaultSpacing(
             MapSet(spacing, <<"s", "p", "a", "c", "e", "-">> \o DecimalChars(index),
                    [name        |-> <<"S", "p", "a", "c", "e", " ">> \o DecimalChars(index),
                     value       |-> Milli(defaultScale[index + 1]),
                     description |-> NumberText(Milli(defaultScale[index + 1]))
                                     \o <<"px spacing unit">>]),
             index + 1)

\* the default scale used only when no "Spacing" node is found
extractSpacingFallbackWithoutFrame(data) ==
    LET spacingFrame == findNodeByName(data.document, <<"S", "p", "a", "c", "i", "n", "g">>)
    IN  IF spacingFrame = None THEN DefaultSpacing(<<>>, 0)
        ELSE IF spacingFrame[1].children # None
          THEN SpacingFromChildren(<<>>, spacingFrame[1].children[1])
        ELSE <<>>

extractSpacing(data) ==
    LET spacingFrame == findNodeByName(data.document, <<"S", "p", "a", "c", "i", "n", "g">>)
        spacing == IF spacingFrame # None /\ spacingFrame[1].children # None
                     THEN SpacingFromChildren(<<>>, spacingFrame[1].children[1])
                     ELSE <<>>
    IN  IF Len(spacing) = 0 THEN DefaultSpacing(spacing, 0) ELSE spacing

\* the lookups of the three style loops: <<style identifier, node found>> for
\* each FILL, TEXT and EFFECT style of the list
StyleLookups(document, styleList) ==
    LET looked == SelectSeq(styleList,
                            LAMBDA st : st.style_type \in {"FILL", "TEXT", "EFFECT"})
    IN  [k \in 1..Len(looked) |->
            <<looked[k].node_id, findNodeByStyleId(document, looked[k].node_id)>>]

\* new Date().toISOString() for a clock reading in milliseconds of one second
toISOString(ms) ==
    "2024-01-01T00:00:00."
    \o DigitChars[((ms \div 100) % 10) + 1] \o DigitChars[((ms \div 10) % 10) + 1]
    \o DigitChars[(ms % 10) + 1]
    \o "Z"

\* the token set extract() returns
\* an extraction that applies stylePrefix: styles whose name does not start
\* with the prefix are left out
DesignTokensFiltered(figmaConfig, data, styleList, clock) ==
    LET prefix == figmaConfig.stylePrefix
        kept == IF prefix = None THEN styleList
                ELSE SelectSeq(styleList,
                               LAMBDA st : /\ Len(st.name) >= Len(prefix[1])
                                           /\ SubSeq(st.name, 1, Len(prefix[1])) = prefix[1])
    IN  [colors     |-> extractColors(data, kept),
         typography |-> extractTypography(data, kept),
         spacing    |-> extractSpacing(data),
         effects    |-> extractEffects(data, kept),
         metadata   |-> [version       |-> "1.0.0",
                         lastSynced    |-> toISOString(clock),
                         figmaFileKey  |-> figmaConfig.fileKey,
                         figmaFileName |-> data.name]]

DesignTokens(figmaConfig, data, styleList, clock) ==
    [colors     |-> extractColors(data, styleList),
     typography |-> extractTypography(data, styleList),
     spacing    |-> extractSpacing(data),
     effects    |-> extractEffects(data, styleList),
     metadata   |-> [version       |-> "1.0.0",
                     lastSynced    |-> toISOString(clock),
                     figmaFileKey  |-> figmaConfig.fileKey,
                     figmaFileName |-> data.name]]

----------------------------------------------------------------------------
(* FigmaExtractor.extract() as a process *)

\* extract() is invoked: getFileData() issues its fetch
ExtractCall ==
    /\ exPc = "idle"
    /\ exPc' = "getFileData"
    /\ fileData' = None
    /\ styles' = None
    /\ rawTokens' = None
    /\ exError' = None
    /\ responses' = <<>>
    /\ resolved' = <<>>

\* the file fetch settles: a success response is parsed, any other throws
GetFileData ==
    /\ exPc = "getFileData"
    /\ \E ok \in BOOLEAN :
          IF ok
            THEN /\ fileData' = Some(remote.file)
                 /\ exPc' = "getStyles"
                 /\ exError' = exError
                 /\ responses' = Append(responses, TRUE)
            ELSE /\ exError' = Some("Figma API error: Forbidden")
                 /\ exPc' = "failed"
                 /\ fileData' = fileData
                 /\ responses' = Append(responses, FALSE)
    /\ UNCHANGED <<styles, rawTokens, exCalls, resolved>>
    /\ UNCHANGED nonExtractorVars

\* a styles fetch that takes an error response for an empty style list
GetStylesIgnoringStatus ==
    /\ exPc = "getStyles"
    /\ \E ok \in BOOLEAN :
          /\ styles' = Some(IF ok /\ remote.styles # None THEN remote.styles[1] ELSE <<>>)
          /\ exPc' = "extract"
          /\ exError' = exError
          /\ responses' = Append(responses, ok)
    /\ UNCHANGED <<fileData, rawTokens, exCalls, resolved>>
    /\ UNCHANGED nonExtractorVars

\* the styles fetch settles: data.meta?.styles || [], or throws
GetStyles ==
    /\ exPc = "getStyles"
    /\ \E ok \in BOOLEAN :
          IF ok
            THEN /\ styles' = Some(IF remote.styles = None THEN <<>> ELSE remote.styles[1])
                 /\ exPc' = "extract"
                 /\ exError' = exError
                 /\ responses' = Append(responses, TRUE)
            ELSE /\ exError' = Some("Figma API error: Forbidden")
                 /\ exPc' = "failed"
                 /\ styles' = styles
                 /\ responses' = Append(responses, FALSE)
    /\ UNCHANGED <<fileData, rawTokens, exCalls, resolved>>
    /\ UNCHANGED nonExtractorVars

\* the synchronous rest of extract(): the four categories and the metadata
ExtractTokens ==
    /\ exPc = "extract"
    /\ rawTokens' = Some(DesignTokens(config.figma, fileData[1], styles[1], now))
    /\ exPc' = "done"
    /\ resolved' = StyleLookups(fileData[1].document, styles[1])
    /\ UNCHANGED <<fileData, styles, exError, responses, exCalls>>
    /\ UNCHANGED nonExtractorVars

ExtractorInit ==
    /\ exPc = "idle"
    /\ fileData = None
    /\ styles = None
    /\ rawTokens = None
    /\ exError = None
    /\ responses = <<>>
    /\ exCalls = 0
    /\ resolved = <<>>

----------------------------------------------------------------------------
(* Remote documents *)

MaxChildren == 2
MaxStyles == 2

SeqsUpTo(S, n) == UNION {[1..k -> S] : k \in 0..n}

Red  == [r |-> 1000, g |-> 0, b |-> 0, a |-> Some(1000)]
Blue == [r |-> 2, g |-> 50, b |-> 998, a |-> None]
Grey == [r |-> 500, g |-> 500, b |-> 500, a |-> Some(250)]

Leaf(name, bindings, fills, style, effects, box) ==
    Node(Some(name), bindings, None, fills, style, effects, box)

Frame(name, children) ==
    Node(Some(name), None, children, None, None, None, None)

\* nodes that styles resolve to
RedFill ==
    Leaf(<<"R", "e", "c", "t">>, Some(<< <<"fill", "1:1">> >>),
         Some(<< [color |-> Some(Red), opacity |-> Some(500)] >>), None, None, None)
BlueFill ==
    Leaf(<<"B", "o", "x">>, Some(<< <<"stroke", "7:7">>, <<"fill", "1:2">> >>),
         Some(<< [color |-> Some(Blue), opacity |-> None],
                 [color |-> Some(Red), opacity |-> None] >>), None, None, None)
GradientFill ==
    Leaf(<<"G", "r", "a", "d">>, Some(<< <<"fill", "1:2">> >>),
         Some(<< [color |-> None, opacity |-> Some(1000)] >>), None, None, None)
Unfilled ==
    Leaf(<<"L", "i", "n", "e">>,
         Some(<< <<"fill", "1:1">>, <<"text", "2:1">>, <<"effect", "3:1">> >>),
         Some(<<>>), None, None, None)
StyledText ==
    Leaf(<<"T", "e", "x", "t">>, Some(<< <<"text", "2:1">>, <<"effect", "3:1">> >>), None,
         Some([fontFamily |-> <<"O", "p", "e", "n", " ", "S", "a", "n", "s">>,
               fontSize |-> Milli(16), fontWeight |-> Milli(400),
               lineHeightPx |-> 22500, letterSpacing |-> -250]),
         Some(<< [type |-> "DROP_SHADOW", color |-> Some(Grey),
                  offset |-> Some([x |-> 0, y |-> Milli(2)]),
                  radius |-> Milli(4), spread |-> None] >>), None)
GlassBlur ==
    Leaf(<<"G", "l", "a", "s", "s">>, Some(<< <<"effect", "3:2">> >>), None, None,
         Some(<< [type |-> "LAYER_BLUR", color |-> None, offset |-> None,
                  radius |-> Milli(12), spread |-> None] >>), None)

StyleNodes ==
    {RedFill, BlueFill, Unfilled, StyledText,
     Frame(<<"G", "r", "o", "u", "p">>, Some(<<GradientFill, GlassBlur, RedFill>>))}

\* nodes around the spacing scale
Box(name, width) ==
    Leaf(name, None, None, None, None, Some([width |-> width]))

SpacingName == <<"S", "p", "a", "c", "i", "n", "g">>

SpacingNodes ==
    {Frame(SpacingName, None),
     Frame(SpacingName, Some(<<>>)),
     Frame(SpacingName, Some(<<Box(<<"8">>, 8400), Box(<<"S", "m">>, 3500), Box(<<"4">>, Milli(4))>>)),
     Frame(<<"S", "P", "A", "C", "I", "N", "G">>, Some(<<RedFill, Box(<<"x", " ", "L">>, Milli(64))>>)),
     Frame(SpacingName, Some(<<RedFill, Frame(<<"R", "o", "w">>, Some(<<Box(<<"2">>, Milli(2))>>))>>)),
     Frame(<<"S", "p", "a", "c", "i", "n", "g", " ">>, Some(<<Box(<<"1", "6">>, Milli(16))>>)),
     Frame(<<"P", "a", "g", "e">>, Some(<<Frame(SpacingName, Some(<<Box(<<"2">>, 1500)>>))>>)),
     Box(SpacingName, Milli(10)),
     StyledText}

Document(children) ==
    Node(Some(<<"D", "o", "c", "u", "m", "e", "n", "t">>), None, Some(children),
         None, None, None, None)

\* fileData.variables
Variables ==
    << <<"VariableID:1:0",
         [resolvedType |-> "COLOR", name |-> <<"B", "r", "a", "n", "d", " ", "R", "e", "d">>,
          description |-> None,
          valuesByMode |-> Some(<< <<"1:0", Blue>>, <<"1:1", Grey>> >>)]>>,
       <<"VariableID:1:1",
         [resolvedType |-> "COLOR", name |-> <<"G", "h", "o", "s", "t">>,
          description |-> Some(<<"no modes">>),
          valuesByMode |-> Some(<<>>)]>>,
       <<"VariableID:1:2",
         [resolvedType |-> "FLOAT", name |-> <<"B", "o", "d", "y">>,
          description |-> None,
          valuesByMode |-> Some(<< <<"1:0", Milli(8)>> >>)]>> >>

VariableOptions == {None, Some(Variables)}

\* entries of the published style list
Style(key, name, type, description, nodeId) ==
    [key |-> key, name |-> name, style_type |-> type, description |-> description,
     node_id |-> nodeId]

StylePool ==
    {Style("k-red", <<"B", "r", "a", "n", "d", "/", "R", "e", "d">>, "FILL", <<"Primary">>, "1:1"),
     Style("k-alt", <<"b", "r", "a", "n", "d", " ", " ", "r", "e", "d", "!">>, "FILL", <<>>, "1:2"),
     Style("k-body", <<"B", "o", "d", "y">>, "TEXT", <<"Body copy">>, "2:1"),
     Style("k-card", <<"C", "a", "r", "d">>, "EFFECT", <<>>, "3:1"),
     Style("k-grid", <<"G", "r", "i", "d">>, "GRID", <<>>, "1:1")}

File(children, variables) ==
    [name |-> <<"Design System">>, document |-> Document(children), variables |-> variables]

\* the remote states the extractor is run on: documents of style-bound nodes
\* with every style list, and documents around the spacing scale
ExtractRemotes ==
    {[file |-> File(kids, v), styles |-> Some(sl)] :
        kids \in SeqsUpTo(StyleNodes, MaxChildren),
        v \in VariableOptions,
        sl \in SeqsUpTo(StylePool, MaxStyles)}
    \cup
    {[file |-> File(kids, None), styles |-> None] :
        kids \in SeqsUpTo(SpacingNodes, MaxChildren)}

FigmaConfig == [fileKey |-> "abc123", accessToken |-> "figd_x", useMCP |-> TRUE,
                nodeIds |-> None, stylePrefix |-> None]

AllOutputs == [css |-> Some(CssPath), tailwind |-> Some(TailwindPath),
               json |-> Some(JsonPath), scss |-> Some(ScssPath)]

----------------------------------------------------------------------------
(* TokenTransformer: strings *)

\* the string made of the pieces of a name, a value or a description
RECURSIVE Str(_)
Str(pieces) == IF pieces = <<>> THEN "" ELSE pieces[1] \o Str(Tail(pieces))

\* `${n}` for a number kept in thousandths
NumStr(x) == Str(NumberText(x))

\* `${n}` for a non-negative integer
IntStr(n) == Str(DecimalChars(n))

RECURSIVE Spaces(_)
Spaces(n) == IF n = 0 THEN "" ELSE " " \o Spaces(n - 1)

\* x || fallback for an optional string: undefined and '' are falsy
OrElse(optional, fallback) ==
    IF optional = None \/ Str(optional[1]) = "" THEN fallback ELSE optional[1]

\* `${lineHeight}px` (the line height of a token is a number)
LineHeightText(typo) == NumStr(typo.lineHeight) \o "px"

\* `${offsetX}px ${offsetY}px ${blur}px ${spread}px ${color}`
ShadowText(value) ==
    NumStr(value.offsetX) \o "px " \o NumStr(value.offsetY) \o "px "
    \o NumStr(value.blur) \o "px " \o NumStr(value.spread) \o "px "
    \o (IF value.color = None THEN "undefined" ELSE Str(value.color[1]))

\* lines.push(...) once per entry of an object, in Object.entries order
RECURSIVE LinesOf(_, _)
LinesOf(Entry(_), m) ==
    IF m = <<>> THEN <<>>
    ELSE Entry(m[1]) \o LinesOf(Entry, Tail(m))

slugify(text) ==
    SelectSeq(CollapseRuns(toLowerCase(text), IsSpace, "-"), IsKeyChar)

----------------------------------------------------------------------------
(* JSON.stringify(value, null, 2) *)

JStr(pieces)   == [t |-> "str", v |-> pieces]
JNum(x)        == [t |-> "num", v |-> x]
JArr(items)    == [t |-> "arr", v |-> items]
JObj(entries)  == [t |-> "obj", v |-> entries]
JUndefined     == [t |-> "undefined", v |-> <<>>]
JOptional(optional) == IF optional = None THEN JUndefined ELSE JStr(optional[1])

\* a JSON string literal: quotation marks and backslashes are escaped
JSONEscape(piece) ==
    IF piece = "\"" THEN "\\\"" ELSE IF piece = "\\" THEN "\\\\" ELSE piece

JSONQuote(pieces) ==
    "\"" \o Str([i \in 1..Len(pieces) |-> JSONEscape(pieces[i])]) \o "\""

RECURSIVE JSONLines(_, _)
RECURSIVE JSONMembers(_, _, _)

\* the members of an array or an object, one per line group, separated by ","
JSONMembers(members, indent, keyed) ==
    IF members = <<>> THEN <<>>
    ELSE LET body   == JSONLines(IF keyed THEN members[1][2] ELSE members[1], indent)
             head   == Spaces(indent)
                       \o (IF keyed THEN JSONQuote(members[1][1]) \o ": " ELSE "")
                       \o body[1]
             lines  == <<head>> \o Tail(body)
             closed == IF Len(members) > 1
                         THEN [lines EXCEPT ![Len(lines)] = @ \o ","]
                         ELSE lines
         IN  closed \o JSONMembers(Tail(members), indent, keyed)

\* the lines of a value whose first line starts at column `indent`; properties
\* whose value is undefined are left out
JSONLines(value, indent) ==
    CASE value.t = "str" -> <<JSONQuote(value.v)>>
      [] value.t = "num" -> <<NumStr(value.v)>>
      [] value.t = "arr" ->
            IF value.v = <<>> THEN <<"[]">>
            ELSE <<"[">> \o JSONMembers(value.v, indent + 2, FALSE)
                 \o <<Spaces(indent) \o "]">>
      [] value.t = "obj" ->
            LET defined == SelectSeq(value.v, LAMBDA e : e[2].t # "undefined")
            IN  IF defined = <<>> THEN <<"{}">>
                ELSE <<"{">> \o JSONMembers(defined, indent + 2, TRUE)
                     \o <<Spaces(indent) \o "}">>

JSONstringify(value) == JSONLines(value, 0)

\* target[key] = Value(<<key, token>>) for every entry of an object, in order
RECURSIVE AssignEach(_, _, _)
AssignEach(Value(_), target, m) ==
    IF m = <<>> THEN target
    ELSE AssignEach(Value, MapSet(target, m[1][1], Value(m[1])), Tail(m))

----------------------------------------------------------------------------
(* TokenTransformer.toCSSVariables *)

CSSColorLines(entry) ==
    LET key == entry[1]
        color == entry[2]
    IN  <<"  --color-" \o Str(key) \o ": " \o Str(color.value) \o ";">>
        \o (IF color.opacity # None /\ color.opacity[1] < Milli(1)
              THEN <<"  --color-" \o Str(key) \o "-opacity: " \o NumStr(color.opacity[1]) \o ";">>
              ELSE <<>>)

CSSTypographyLines(entry) ==
    LET key == entry[1]
        typo == entry[2]
    IN  <<"  --font-" \o Str(key) \o "-family: \"" \o Str(typo.fontFamily) \o "\";",
          "  --font-" \o Str(key) \o "-size: " \o NumStr(typo.fontSize) \o "px;",
          "  --font-" \o Str(key) \o "-weight: " \o NumStr(typo.fontWeight) \o ";",
          "  --font-" \o Str(key) \o "-line-height: " \o LineHeightText(typo) \o ";",
          "  --font-" \o Str(key) \o "-letter-spacing: " \o NumStr(typo.letterSpacing) \o "px;">>

CSSSpacingLines(entry) ==
    LET key == entry[1]
        space == entry[2]
    IN  <<"  --spacing-" \o Str(key) \o ": " \o NumStr(space.value) \o "px;">>

CSSEffectLines(entry) ==
    LET key == entry[1]
        effect == entry[2]
    IN  IF effect.type = "shadow"
          THEN <<"  --shadow-" \o Str(key) \o ": " \o ShadowText(effect.value) \o ";">>
        ELSE IF effect.type = "blur"
          THEN <<"  --blur-" \o Str(key) \o ": " \o NumStr(effect.value.blur) \o "px;">>
        ELSE <<>>

toCSSVariables(tokens) ==
    <<"/**",
      " * Origin OS Design Tokens",
      " * Generated: " \o tokens.metadata.lastSynced,
      " * Source: Figma file "
          \o (IF tokens.metadata.figmaFileKey = "" THEN "unknown"
              ELSE tokens.metadata.figmaFileKey),
      " * DO NOT EDIT MANUALLY - This file is auto-generated",
      " */",
      "",
      ":root {">>
    \o (IF Len(tokens.colors) > 0
          THEN <<"  /* Colors */">> \o LinesOf(CSSColorLines, tokens.colors) \o <<"">>
          ELSE <<>>)
    \o (IF Len(tokens.typography) > 0
          THEN <<"  /* Typography */">> \o LinesOf(CSSTypographyLines, tokens.typography)
               \o <<"">>
          ELSE <<>>)
    \o (IF Len(tokens.spacing) > 0
          THEN <<"  /* Spacing */">> \o LinesOf(CSSSpacingLines, tokens.spacing) \o <<"">>
          ELSE <<>>)
    \o (IF Len(tokens.effects) > 0
          THEN <<"  /* Effects */">> \o LinesOf(CSSEffectLines, tokens.effects) \o <<"">>
          ELSE <<>>)
    \o <<"}",
         "",
         "[data-theme=\"dark\"] {",
         "  /* Dark mode overrides - customize as needed */",
         "}">>

----------------------------------------------------------------------------
(* TokenTransformer.toTailwindConfig *)

\* fontFamilies[familyKey] = [typo.fontFamily] unless the key is already set
RECURSIVE TailwindFontFamilies(_, _)
TailwindFontFamilies(fontFamilies, typography) ==
    IF typography = <<>> THEN fontFamilies
    ELSE LET typo      == typography[1][2]
             familyKey == slugify(typo.fontFamily)
         IN  TailwindFontFamilies(
                 IF MapHas(fontFamilies, familyKey) THEN fontFamilies
                 ELSE MapSet(fontFamilies, familyKey, JArr(<<JStr(typo.fontFamily)>>)),
                 Tail(typography))

TailwindColor(entry) ==
    LET key == entry[1]
        color == entry[2]
    IN  JStr(color.value)

TailwindFontSize(entry) ==
    LET key == entry[1]
        typo == entry[2]
    IN  JArr(<<JStr(<<NumStr(typo.fontSize), "px">>),
               JObj(<< <<<<"lineHeight">>, JStr(<<LineHeightText(typo)>>)>> >>)>>)

TailwindSpacing(entry) ==
    LET key == entry[1]
        space == entry[2]
    IN  JStr(<<NumStr(space.value), "px">>)

TailwindShadow(entry) ==
    LET key == entry[1]
        effect == entry[2]
    IN  JStr(<<ShadowText(effect.value)>>)

TailwindBlur(entry) ==
    LET key == entry[1]
        effect == entry[2]
    IN  JStr(<<NumStr(effect.value.blur), "px">>)

TailwindConfigObject(tokens) ==
    JObj(<< <<<<"theme">>, JObj(<< <<<<"extend">>, JObj(<<
        <<<<"colors">>, JObj(AssignEach(TailwindColor, <<>>, tokens.colors))>>,
        <<<<"fontFamily">>, JObj(TailwindFontFamilies(<<>>, tokens.typography))>>,
        <<<<"fontSize">>, JObj(AssignEach(TailwindFontSize, <<>>, tokens.typography))>>,
        <<<<"fontWeight">>, JObj(<<>>)>>,
        <<<<"lineHeight">>, JObj(<<>>)>>,
        <<<<"letterSpacing">>, JObj(<<>>)>>,
        <<<<"spacing">>, JObj(AssignEach(TailwindSpacing, <<>>, tokens.spacing))>>,
        <<<<"boxShadow">>,
          JObj(AssignEach(TailwindShadow, <<>>,
                          SelectSeq(tokens.effects, LAMBDA e : e[2].type = "shadow")))>>,
        <<<<"blur">>,
          JObj(AssignEach(TailwindBlur, <<>>,
                          SelectSeq(tokens.effects, LAMBDA e : e[2].type = "blur")))>>
    >>)>> >>)>> >>)

toTailwindConfig(tokens) ==
    LET json == JSONstringify(TailwindConfigObject(tokens))
    IN  <<"/**",
          " * Origin OS Tailwind Design Tokens",
          " * Generated: " \o tokens.metadata.lastSynced,
          " * DO NOT EDIT MANUALLY - This file is auto-generated",
          " */",
          "",
          "/** @type {import(\"tailwindcss\").Config} */",
          "module.exports = " \o json[1]>>
        \o Tail(json)

----------------------------------------------------------------------------
(* TokenTransformer.toSCSS *)

SCSSColorLines(entry) ==
    LET key == entry[1]
        color == entry[2]
    IN  <<"$color-" \o Str(key) \o ": " \o Str(color.value) \o ";">>

SCSSColorMapLines(entry) ==
    LET key == entry[1]
        color == entry[2]
    IN  <<"  \"" \o Str(key) \o "\": " \o Str(color.value) \o ",">>

SCSSTypographyLines(entry) ==
    LET key == entry[1]
        typo == entry[2]
    IN  <<"$font-" \o Str(key) \o "-family: \"" \o Str(typo.fontFamily) \o "\";",
          "$font-" \o Str(key) \o "-size: " \o NumStr(typo.fontSize) \o "px;",
          "$font-" \o Str(key) \o "-weight: " \o NumStr(typo.fontWeight) \o ";",
          "$font-" \o Str(key) \o "-line-height: " \o LineHeightText(typo) \o ";",
          "$font-" \o Str(key) \o "-letter-spacing: " \o NumStr(typo.letterSpacing) \o "px;",
          "">>

SCSSMixinLines(entry) ==
    LET key == entry[1]
        typo == entry[2]
    IN  <<"  @if $style == \"" \o Str(key) \o "\" {",
          "    font-family: $font-" \o Str(key) \o "-family;",
          "    font-size: $font-" \o Str(key) \o "-size;",
          "    font-weight: $font-" \o Str(key) \o "-weight;",
          "    line-height: $font-" \o Str(key) \o "-line-height;",
          "    letter-spacing: $font-" \o Str(key) \o "-letter-spacing;",
          "  }">>

SCSSSpacingLines(entry) ==
    LET key == entry[1]
        space == entry[2]
    IN  <<"$spacing-" \o Str(key) \o ": " \o NumStr(space.value) \o "px;">>

SCSSSpacingMapLines(entry) ==
    LET key == entry[1]
        space == entry[2]
    IN  <<"  \"" \o Str(key) \o "\": " \o NumStr(space.value) \o "px,">>

SCSSEffectLines(entry) ==
    LET key == entry[1]
        effect == entry[2]
    IN  IF effect.type = "shadow"
          THEN <<"$shadow-" \o Str(key) \o ": " \o ShadowText(effect.value) \o ";">>
        ELSE IF effect.type = "blur"
          THEN <<"$blur-" \o Str(key) \o ": " \o NumStr(effect.value.blur) \o "px;">>
        ELSE <<>>

toSCSS(tokens) ==
    <<"//",
      "// Origin OS Design Tokens (SCSS)",
      "// Generated: " \o tokens.metadata.lastSynced,
      "// DO NOT EDIT MANUALLY - This file is auto-generated",
      "//",
      "">>
    \o (IF Len(tokens.colors) > 0
          THEN <<"// Colors", "// -------">> \o LinesOf(SCSSColorLines, tokens.colors)
               \o <<"", "$colors: (">> \o LinesOf(SCSSColorMapLines, tokens.colors)
               \o <<");", "">>
          ELSE <<>>)
    \o (IF Len(tokens.typography) > 0
          THEN <<"// Typography", "// ----------">>
               \o LinesOf(SCSSTypographyLines, tokens.typography)
               \o <<"// Typography Mixin", "@mixin typography($style) {">>
               \o LinesOf(SCSSMixinLines, tokens.typography)
               \o <<"}", "">>
          ELSE <<>>)
    \o (IF Len(tokens.spacing) > 0
          THEN <<"// Spacing", "// -------">> \o LinesOf(SCSSSpacingLines, tokens.spacing)
               \o <<"", "$spacing: (">> \o LinesOf(SCSSSpacingMapLines, tokens.spacing)
               \o <<");", "">>
          ELSE <<>>)
    \o (IF Len(tokens.effects) > 0
          THEN <<"// Effects", "// -------">> \o LinesOf(SCSSEffectLines, tokens.effects)
               \o <<"">>
          ELSE <<>>)

----------------------------------------------------------------------------
(* TokenTransformer.toJSON *)

JSONColor(entry) ==
    LET key == entry[1]
        color == entry[2]
    IN  JObj(<< <<<<"$type">>, JStr(<<"color">>)>>,
                <<<<"$value">>, JStr(color.value)>>,
                <<<<"$description">>, JStr(OrElse(color.description, color.name))>> >>)

JSONTypography(entry) ==
    LET key == entry[1]
        typo == entry[2]
    IN  JObj(<< <<<<"$type">>, JStr(<<"typography">>)>>,
                <<<<"$value">>, JObj(<<
                    <<<<"fontFamily">>, JStr(typo.fontFamily)>>,
                    <<<<"fontSize">>, JStr(<<NumStr(typo.fontSize), "px">>)>>,
                    <<<<"fontWeight">>, JNum(typo.fontWeight)>>,
                    <<<<"lineHeight">>, JStr(<<LineHeightText(typo)>>)>>,
                    <<<<"letterSpacing">>, JStr(<<NumStr(typo.letterSpacing), "px">>)>> >>)>>,
                <<<<"$description">>, JStr(OrElse(typo.description, typo.name))>> >>)

JSONSpacing(entry) ==
    LET key == entry[1]
        space == entry[2]
    IN  JObj(<< <<<<"$type">>, JStr(<<"dimension">>)>>,
                <<<<"$value">>, JStr(<<NumStr(space.value), "px">>)>>,
                <<<<"$description">>, JStr(OrElse(Some(space.description), space.name))>> >>)

JSONShadow(entry) ==
    LET key == entry[1]
        effect == entry[2]
    IN  JObj(<< <<<<"$type">>, JStr(<<"shadow">>)>>,
                <<<<"$value">>, JObj(<<
                    <<<<"color">>, JOptional(effect.value.color)>>,
                    <<<<"offsetX">>, JStr(<<NumStr(effect.value.offsetX), "px">>)>>,
                    <<<<"offsetY">>, JStr(<<NumStr(effect.value.offsetY), "px">>)>>,
                    <<<<"blur">>, JStr(<<NumStr(effect.value.blur), "px">>)>>,
                    <<<<"spread">>, JStr(<<NumStr(effect.value.spread), "px">>)>> >>)>>,
                <<<<"$description">>, JStr(OrElse(effect.description, effect.name))>> >>)

\* a structured document that carries every effect, blurs included
JSONOutputObjectWithBlur(tokens) ==
    JObj(<<
        <<<<"$schema">>, JStr(<<"https://design-tokens.github.io/community-group/format/">>)>>,
        <<<<"$metadata">>, JObj(<<
            <<<<"generator">>, JStr(<<"origin-os-figma-sync">>)>>,
            <<<<"version">>, JStr(<<tokens.metadata.version>>)>>,
            <<<<"lastSynced">>, JStr(<<tokens.metadata.lastSynced>>)>>,
            <<<<"source">>, JObj(<<
                <<<<"type">>, JStr(<<"figma">>)>>,
                <<<<"fileKey">>, JStr(<<tokens.metadata.figmaFileKey>>)>> >>)>> >>)>>,
        <<<<"color">>, JObj(AssignEach(JSONColor, <<>>, tokens.colors))>>,
        <<<<"typography">>, JObj(AssignEach(JSONTypography, <<>>, tokens.typography))>>,
        <<<<"spacing">>, JObj(AssignEach(JSONSpacing, <<>>, tokens.spacing))>>,
        <<<<"effect">>, JObj(AssignEach(JSONShadow, <<>>, tokens.effects))>> >>)

JSONOutputObject(tokens) ==
    JObj(<<
        <<<<"$schema">>, JStr(<<"https://design-tokens.github.io/community-group/format/">>)>>,
        <<<<"$metadata">>, JObj(<<
            <<<<"generator">>, JStr(<<"origin-os-figma-sync">>)>>,
            <<<<"version">>, JStr(<<tokens.metadata.version>>)>>,
            <<<<"lastSynced">>, JStr(<<tokens.metadata.lastSynced>>)>>,
            <<<<"source">>, JObj(<<
                <<<<"type">>, JStr(<<"figma">>)>>,
                <<<<"fileKey">>, JStr(<<tokens.metadata.figmaFileKey>>)>> >>)>> >>)>>,
        <<<<"color">>, JObj(AssignEach(JSONColor, <<>>, tokens.colors))>>,
        <<<<"typography">>, JObj(AssignEach(JSONTypography, <<>>, tokens.typography))>>,
        <<<<"spacing">>, JObj(AssignEach(JSONSpacing, <<>>, tokens.spacing))>>,
        <<<<"effect">>,
          JObj(AssignEach(JSONShadow, <<>>,
                          SelectSeq(tokens.effects, LAMBDA e : e[2].type = "shadow")))>> >>)

toJSON(tokens) == JSONstringify(JSONOutputObject(tokens))

----------------------------------------------------------------------------
(* DesignTokenSync *)

MaxRuns == 2
MaxClock == 1

\* the configurations: every format; css and scss only, with no file key
\* (FIGMA_FILE_KEY unset); no format at all
SyncConfigs ==
    {[figma |-> FigmaConfig, output |-> AllOutputs],
     [figma |-> [FigmaConfig EXCEPT !.fileKey = ""],
      output |-> [css |-> Some(CssPath), tailwind |-> None, json |-> None,
                  scss |-> Some(ScssPath)]],
     [figma |-> FigmaConfig,
      output |-> [css |-> None, tailwind |-> None, json |-> None, scss |-> None]]}

GlassStyle == Style("k-glass", <<"G", "l", "a", "s", "s">>, "EFFECT", <<"Frosted">>, "3:2")

\* the remote files sync() is run on: one with a token of every category,
\* one with a spacing scale and no published style
SyncRemotes ==
    {[file   |-> File(<<RedFill, StyledText, GlassBlur>>, Some(Variables)),
      styles |-> Some(<<Style("k-red", <<"B", "r", "a", "n", "d", "/", "R", "e", "d">>,
                              "FILL", <<"Primary">>, "1:1"),
                        Style("k-body", <<"B", "o", "d", "y">>, "TEXT", <<"Body copy">>, "2:1"),
                        Style("k-card", <<"C", "a", "r", "d">>, "EFFECT", <<>>, "3:1"),
                        GlassStyle>>)],
     [file   |-> File(<<Frame(SpacingName, Some(<<Box(<<"8">>, 8400),
                                                  Box(<<"S", "m">>, 3500)>>))>>, None),
      styles |-> None]}

\* the order in which sync() goes through the formats
FormatOrder == <<"css", "tailwind", "json", "scss">>
Formats == {FormatOrder[j] : j \in 1..Len(FormatOrder)}
FormatIndex(format) == CHOOSE j \in 1..Len(FormatOrder) : FormatOrder[j] = format

\* a driver that falls back to the destinations of main() for a format
\* without one
DestinationWithDefaults(cfg, format) ==
    IF cfg.output[format] = None THEN AllOutputs[format] ELSE cfg.output[format]

\* this.config.output.<format>: undefined (falsy) when the key is absent
Destination(cfg, format) == cfg.output[format]

\* serializers that stamp their output with the clock reading at the call
SerializeStamped(format, tokens) ==
    Append(CASE format = "css"      -> toCSSVariables(tokens)
             [] format = "tailwind" -> toTailwindConfig(tokens)
             [] format = "json"     -> toJSON(tokens)
             [] format = "scss"     -> toSCSS(tokens),
           "// " \o toISOString(now))

\* this.transformer.to<Format>(rawTokens)
Serialize(format, tokens) ==
    CASE format = "css"      -> toCSSVariables(tokens)
      [] format = "tailwind" -> toTailwindConfig(tokens)
      [] format = "json"     -> toJSON(tokens)
      [] format = "scss"     -> toSCSS(tokens)

PathText(filePath) == "./" \o filePath[1] \o "/" \o filePath[2]

FormatLabel(format) ==
    CASE format = "css"      -> "CSS variables"
      [] format = "tailwind" -> "Tailwind config"
      [] format = "json"     -> "JSON tokens"
      [] format = "scss"     -> "SCSS variables"

\* the line logged after the write of a format, whatever write() returned.
\* Characters outside Latin-1 are written by name between braces.
ReportLine(format, filePath) ==
    "   {check mark} " \o FormatLabel(format) \o " {rightwards arrow} " \o PathText(filePath)

\* the four "Found" lines and the "Transforming" line
FoundLines(tokens) ==
    <<"   Found " \o IntStr(Len(tokens.colors)) \o " colors",
      "   Found " \o IntStr(Len(tokens.typography)) \o " typography styles",
      "   Found " \o IntStr(Len(tokens.spacing)) \o " spacing values",
      "   Found " \o IntStr(Len(tokens.effects)) \o " effects\n",
      "{arrows} Transforming tokens...">>

NewRun(n, calls0) ==
    [n            |-> n,
     exCallsStart |-> calls0,
     attempted    |-> <<>>,
     contents     |-> [f \in Formats |-> None],
     results      |-> [f \in Formats |-> "none"],
     reports      |-> [f \in Formats |-> None],
     snapshot     |-> None,
     serializedAt |-> [f \in Formats |-> None],
     filesAtStart |-> files,
     hashesAtStart |-> previousHashes]

\* the first format after position k whose `if (this.config.output.<format>)`
\* holds, or 0
NextFormat(cfg, k) ==
    LET later == {j \in (k + 1)..Len(FormatOrder) : Destination(cfg, FormatOrder[j]) # None}
    IN  IF later = {} THEN 0 ELSE CHOOSE j \in later : \A i \in later : j <= i

\* sync() runs on from after the block of format k to its next await: it
\* serializes the snapshot for the next configured format and calls write(),
\* or logs completion and returns.
SyncProceed(k, tokens, lines, record) ==
    LET j == NextFormat(config, k)
    IN  IF j = 0
          THEN /\ syncPc' = "complete"
               /\ syncFormat' = "none"
               /\ log' = Append(lines, "\n{check mark button} Design token sync complete!")
               /\ run' = record
               /\ calls' = [calls EXCEPT ![1] = IdleFrame]
               /\ UNCHANGED <<previousHashes, files, dirs, opCount, lastOp,
                              lastWritten, round0>>
          ELSE LET format   == FormatOrder[j]
                   filePath == Destination(config, format)[1]
                   content  == Serialize(format, tokens)
               IN  /\ WriteCall(1, filePath, content)
                   /\ syncPc' = "write"
                   /\ syncFormat' = format
                   /\ log' = lines
                   /\ run' = [record EXCEPT !.attempted = Append(@, format),
                                            !.contents[format] = Some(content),
                                            !.serializedAt[format] = Some(now)]

\* sync() is invoked: two log lines, then extract() is called and awaited
SyncCall ==
    /\ syncPc \in {"idle", "complete", "failed"}
    /\ run.n < MaxRuns
    /\ ExtractCall
    /\ exCalls' = exCalls + 1
    /\ syncPc' = "extract"
    /\ syncFormat' = "none"
    /\ syncTokens' = None
    /\ syncError' = None
    /\ log' = <<"{palette} Starting Figma design token sync...\n",
                "{inbox tray} Extracting tokens from Figma...">>
    /\ prev' = IF run.n = 0 THEN None
               ELSE Some([run |-> run, pc |-> syncPc, log |-> log, clock |-> now,
                          fetched |-> <<fileData, styles>>])
    /\ run' = NewRun(run.n + 1, exCalls)
    /\ UNCHANGED <<writerVars, envVars>>

\* extract() resolved: the counts are logged and the first configured format
\* is serialized and written
SyncExtracted ==
    /\ syncPc = "extract"
    /\ exPc = "done"
    /\ exPc' = "idle"
    /\ syncTokens' = rawTokens
    /\ SyncProceed(0, rawTokens[1], log \o FoundLines(rawTokens[1]),
                   [run EXCEPT !.snapshot = rawTokens])
    /\ UNCHANGED <<fileData, styles, rawTokens, exError, responses, exCalls, resolved>>
    /\ UNCHANGED <<syncError, prev, envVars>>

\* extract() rejected: sync() rejects with the same error
SyncExtractRejected ==
    /\ syncPc = "extract"
    /\ exPc = "failed"
    /\ exPc' = "idle"
    /\ syncPc' = "failed"
    /\ syncError' = exError
    /\ UNCHANGED <<fileData, styles, rawTokens, exError, responses, exCalls, resolved>>
    /\ UNCHANGED <<syncFormat, syncTokens, log, run, prev, envVars, writerVars>>

\* write() resolved: its result is dropped, the destination is logged and
\* sync() goes on to the next configured format
SyncWritten ==
    /\ syncPc = "write"
    /\ calls[1].pc = "returned"
    /\ LET line == ReportLine(syncFormat, calls[1].filePath)
       IN  SyncProceed(FormatIndex(syncFormat), syncTokens[1], Append(log, line),
                       [run EXCEPT !.results[syncFormat] =
                                       IF calls[1].result THEN "true" ELSE "false",
                                   !.reports[syncFormat] = Some(line)])
    /\ UNCHANGED <<syncTokens, syncError, prev, envVars, exVars>>

\* write() rejected: nothing catches it, so sync() rejects with the same error
SyncWriteRejected ==
    /\ syncPc = "write"
    /\ calls[1].pc = "threw"
    /\ syncPc' = "failed"
    /\ syncError' = Some("EACCES: permission denied")
    /\ run' = [run EXCEPT !.results[syncFormat] = "threw"]
    /\ calls' = [calls EXCEPT ![1] = IdleFrame]
    /\ UNCHANGED <<previousHashes, files, dirs, opCount, lastOp, lastWritten, round0>>
    /\ UNCHANGED <<syncFormat, syncTokens, log, prev, envVars, exVars>>

\* the process has ended and the tool is started again:
\* new DesignTokenSync(config) makes a new OutputWriter; the files stay
Construct ==
    /\ syncPc \in {"complete", "failed"}
    /\ run.n < MaxRuns
    /\ previousHashes' = [p \in Paths |-> None]
    /\ syncPc' = "idle"
    /\ syncTokens' = None
    /\ syncError' = None
    /\ log' = <<>>
    /\ UNCHANGED <<files, dirs, calls, opCount, lastOp, lastWritten, round0>>
    /\ UNCHANGED <<syncFormat, run, prev, envVars, exVars>>

\* between two runs the designers publish a change: the API serves another
\* file
RemoteEdit ==
    /\ syncPc \in {"complete", "failed"}
    /\ remote' \in SyncRemotes \ {remote}
    /\ UNCHANGED <<config, now, writerVars, exVars, syncVars>>

\* a millisecond passes
Tick ==
    /\ now < MaxClock
    /\ now' = now + 1
    /\ UNCHANGED <<config, remote, writerVars, exVars, syncVars>>

WriterUnused ==
    /\ previousHashes = [p \in Paths |-> None]
    /\ files = [p \in Paths |-> None]
    /\ dirs = {}
    /\ calls = [i \in Slots |-> IdleFrame]
    /\ opCount = 0
    /\ lastOp = NoOp
    /\ lastWritten = [p \in Paths |-> None]
    /\ round0 = [files |-> files, previousHashes |-> previousHashes]

SyncUnused ==
    /\ syncPc = "idle"
    /\ syncFormat = "none"
    /\ syncTokens = None
    /\ syncError = None
    /\ log = <<>>
    /\ run = NewRun(0, 0)
    /\ prev = None

Init ==
    /\ WriterUnused
    /\ config \in SyncConfigs
    /\ now = 0
    /\ remote \in SyncRemotes
    /\ ExtractorInit
    /\ SyncUnused

Next ==
    \/ SyncCall
    \/ GetFileData
    \/ GetStyles
    \/ ExtractTokens
    \/ SyncExtracted
    \/ SyncExtractRejected
    \/ WriteMkdir(1)
    \/ WriteCheck(1)
    \/ WriteFile(1)
    \/ WriteSet(1)
    \/ SyncWritten
    \/ SyncWriteRejected
    \/ Construct
    \/ RemoteEdit
    \/ Tick

Spec == Init /\ [][Next]_vars

----------------------------------------------------------------------------
(* SpecExtract: extract() run once on each remote state *)

ExtractorUnused ==
    /\ config = [figma |-> FigmaConfig, output |-> AllOutputs]
    /\ now = 0
    /\ remote = [file |-> File(<<>>, None), styles |-> None]
    /\ ExtractorInit
    /\ SyncUnused

ExtractInit ==
    /\ WriterUnused
    /\ config = [figma |-> FigmaConfig, output |-> AllOutputs]
    /\ now = 0
    /\ remote \in ExtractRemotes
    /\ ExtractorInit
    /\ SyncUnused

ExtractStart ==
    /\ ExtractCall
    /\ exCalls' = exCalls + 1
    /\ UNCHANGED nonExtractorVars

ExtractNext ==
    \/ ExtractStart
    \/ GetFileData
    \/ GetStyles
    \/ ExtractTokens

SpecExtract == ExtractInit /\ [][ExtractNext]_vars

\* the extractor run on the documents of style-bound nodes under the
\* configuration without and with the two optional filters
FigmaConfigs ==
    {FigmaConfig,
     [FigmaConfig EXCEPT !.nodeIds = Some(<<"9:9">>),
                         !.stylePrefix = Some(<<"B", "r", "a", "n", "d", "/">>)]}

FilterRemotes == {r \in ExtractRemotes : r.styles # None /\ r.file.variables = None}

FiltersInit ==
    /\ WriterUnused
    /\ config \in {[figma |-> c, output |-> AllOutputs] : c \in FigmaConfigs}
    /\ now = 0
    /\ remote \in FilterRemotes
    /\ ExtractorInit
    /\ SyncUnused

SpecFilters == FiltersInit /\ [][ExtractNext]_vars

\* the extractor run on every display name up to MaxNameLen characters, as
\* the name of a child of the "Spacing" frame
MaxNameLen == 3

NameChars == {"A", "z", "7", "/", " ", "-", "_"}

TokenizeRemotes ==
    {[file |-> File(<<Frame(SpacingName, Some(<<Box(name, Milli(8))>>))>>, None),
      styles |-> None] :
        name \in SeqsUpTo(NameChars, MaxNameLen)}

TokenizeInit ==
    /\ WriterUnused
    /\ config = [figma |-> FigmaConfig, output |-> AllOutputs]
    /\ now = 0
    /\ remote \in TokenizeRemotes
    /\ ExtractorInit
    /\ SyncUnused

SpecTokenize == TokenizeInit /\ [][ExtractNext]_vars

----------------------------------------------------------------------------
(* SpecWriter: one caller that awaits each OutputWriter call before the next *)

\* a caller invokes write() or loadExistingHash()
CallWrite(i) ==
    /\ calls[i].pc = "idle"
    /\ opCount < MaxOps
    /\ \E p \in WriterPaths, c \in WriterContents : WriteCall(i, p, c)
    /\ UNCHANGED nonWriterVars

CallLoad(i) ==
    /\ calls[i].pc = "idle"
    /\ opCount < MaxOps
    /\ \E p \in WriterPaths : LoadCall(i, p)
    /\ UNCHANGED nonWriterVars

WriterNext ==
    \/ CallWrite(1)
    \/ CallLoad(1)
    \/ WriteMkdir(1)
    \/ WriteCheck(1)
    \/ WriteFile(1)
    \/ WriteSet(1)
    \/ LoadRead(1)
    \/ LoadSet(1)
    \/ WriterReturn(1)

WriterSpecInit ==
    /\ WriterInit
    /\ ExtractorUnused

SpecWriter == WriterSpecInit /\ [][WriterNext]_vars

(* SpecConcurrent: two write() calls may be in flight at once *)

\* every call in flight has settled and the caller takes the results
ConcurrentSettled ==
    /\ \A i \in Slots : calls[i].pc # "idle" => Finished(i)
    /\ \E i \in Slots : Finished(i)
    /\ calls' = [i \in Slots |-> IdleFrame]
    /\ lastOp' = NoOp
    /\ UNCHANGED <<previousHashes, files, dirs, opCount, lastWritten, round0>>
    /\ UNCHANGED nonWriterVars

ConcurrentNext ==
    \/ \E i \in Slots : CallWrite(i)
    \/ \E i \in Slots : WriteMkdir(i)
    \/ \E i \in Slots : WriteCheck(i)
    \/ \E i \in Slots : WriteFile(i)
    \/ \E i \in Slots : WriteSet(i)
    \/ ConcurrentSettled

SpecConcurrent == WriterSpecInit /\ [][ConcurrentNext]_vars

----------------------------------------------------------------------------
(* Claims about the OutputWriter *)

\* what a settled call handed to its caller
Outcome(i) ==
    IF calls[i].pc = "threw" THEN "threw"
    ELSE IF calls[i].result THEN "true" ELSE "false"

\* C1: write(p, c) immediately after a successful write(p, c) returns false and
\* does not write the file; write(p, c2) with c2 different from the content
\* last written to p returns true and the file then holds c2.
C1_WriteSkip ==
    LET f == calls[1] IN
    f.op = "write" =>
        /\ (/\ lastOp.op = "write"
            /\ ~lastOp.threw
            /\ lastOp.filePath = f.filePath
            /\ lastOp.content = f.content)
           => /\ f.pc \notin {"writeFile", "set"}
              /\ f.pc = "returned" => f.result = FALSE
        /\ (/\ f.pc = "returned"
            /\ f.prior # None
            /\ f.prior # Some(f.content))
           => /\ f.result = TRUE
              /\ files[f.filePath] = Some(f.content)

\* The same statement with "different content" read as "content with a
\* different MD5 digest": this is what the guard decides.
C1_WriteSkipByDigest ==
    LET f == calls[1] IN
    f.op = "write" =>
        /\ (/\ lastOp.op = "write"
            /\ ~lastOp.threw
            /\ lastOp.filePath = f.filePath
            /\ lastOp.content = f.content)
           => /\ f.pc \notin {"writeFile", "set"}
              /\ f.pc = "returned" => f.result = FALSE
        /\ (/\ f.pc = "returned"
            /\ f.prior # None
            /\ hashContent(f.prior[1]) # hashContent(f.content))
           => /\ f.result = TRUE
              /\ files[f.filePath] = Some(f.content)

\* write(filePath, content) run alone from state st, with the file system
\* failing as `fault` says: the reference the concurrent runs are compared with.
Faults == {"none", "mkdir", "writeFile", "writeFileTruncate"}

WriteAlone(st, filePath, content, fault) ==
    IF fault = "mkdir"
      THEN [files |-> st.files, previousHashes |-> st.previousHashes, outcome |-> "threw"]
    ELSE IF st.previousHashes[filePath] = Some(hashContent(content))
      THEN [files |-> st.files, previousHashes |-> st.previousHashes, outcome |-> "false"]
    ELSE IF fault = "writeFile"
      THEN [files |-> st.files, previousHashes |-> st.previousHashes, outcome |-> "threw"]
    ELSE IF fault = "writeFileTruncate"
      THEN [files |-> [st.files EXCEPT ![filePath] = Some(EmptyContent)],
            previousHashes |-> st.previousHashes, outcome |-> "threw"]
    ELSE [files |-> [st.files EXCEPT ![filePath] = Some(content)],
          previousHashes |-> [st.previousHashes EXCEPT ![filePath] = Some(hashContent(content))],
          outcome |-> "true"]

\* C6: two write() calls for different destinations, interleaved in any order
\* at their await points, return the same results and leave the same file
\* content and recorded fingerprint for their destinations as the two calls
\* run one after the other.
C6_ConcurrentWritesIndependent ==
    (/\ Finished(1) /\ Finished(2)
     /\ calls[1].op = "write" /\ calls[2].op = "write"
     /\ calls[1].filePath # calls[2].filePath)
    => \E f1 \in Faults, f2 \in Faults :
          LET a == WriteAlone(round0, calls[1].filePath, calls[1].content, f1)
              b == WriteAlone(a, calls[2].filePath, calls[2].content, f2)
          IN  /\ Outcome(1) = a.outcome
              /\ Outcome(2) = b.outcome
              /\ \A p \in {calls[1].filePath, calls[2].filePath} :
                    /\ files[p] = b.files[p]
                    /\ previousHashes[p] = b.previousHashes[p]

\* two overlapping writes to different destinations both wrote their file
C6_Witness ==
    /\ Finished(1) /\ Finished(2)
    /\ calls[1].overlap /\ calls[2].overlap
    /\ calls[1].filePath # calls[2].filePath
    /\ Outcome(1) = "true" /\ Outcome(2) = "true"
    /\ files[calls[1].filePath] = Some(calls[1].content)
    /\ files[calls[2].filePath] = Some(calls[2].content)

----------------------------------------------------------------------------
(* Claims about the extractor *)

\* every node of a tree
RECURSIVE NodesOf(_)
NodesOf(node) ==
    {node} \cup (IF node.children = None THEN {}
                 ELSE UNION {NodesOf(node.children[1][i]) : i \in 1..Len(node.children[1])})

Binds(node, styleId) ==
    /\ node.styles # None
    /\ \E i \in 1..Len(node.styles[1]) : node.styles[1][i][2] = styleId

RemoveAt(seq, k) == SubSeq(seq, 1, k - 1) \o SubSeq(seq, k + 1, Len(seq))

\* a FILL, TEXT or EFFECT style that cannot give a token in this document:
\* no node binds it, or the node it resolves to lacks the payload of its type
FailingStyle(document, style) ==
    \/ /\ style.style_type \in {"FILL", "TEXT", "EFFECT"}
       /\ \A n \in NodesOf(document) : ~Binds(n, style.node_id)
    \/ /\ style.style_type = "FILL"
       /\ FirstFillColor(findNodeByStyleId(document, style.node_id)) = None
    \/ /\ style.style_type = "TEXT"
       /\ TextStyleOf(findNodeByStyleId(document, style.node_id)) = None
    \/ /\ style.style_type = "EFFECT"
       /\ FirstEffect(findNodeByStyleId(document, style.node_id)) = None

TokenOfStyle(m, style) == \E i \in 1..Len(m) : m[i][2].figmaId = Some(style.key)

\* C8: a FILL, TEXT or EFFECT style whose node cannot be resolved, or whose
\* resolved node lacks the payload, adds no token and raises no error, and the
\* tokens of the three style categories are those of the list without it.
C8_MissingNodeResilience ==
    exPc = "done" =>
        \A k \in 1..Len(styles[1]) :
            FailingStyle(fileData[1].document, styles[1][k]) =>
                /\ exError = None
                /\ ~TokenOfStyle(rawTokens[1].colors, styles[1][k])
                /\ ~TokenOfStyle(rawTokens[1].typography, styles[1][k])
                /\ ~TokenOfStyle(rawTokens[1].effects, styles[1][k])
                /\ rawTokens[1].colors = extractColors(fileData[1], RemoveAt(styles[1], k))
                /\ rawTokens[1].typography = extractTypography(fileData[1], RemoveAt(styles[1], k))
                /\ rawTokens[1].effects = extractEffects(fileData[1], RemoveAt(styles[1], k))

\* a failing FILL style is followed by a FILL style that gave its token
C8_Witness ==
    /\ exPc = "done"
    /\ Len(styles[1]) = 2
    /\ styles[1][1].style_type = "FILL"
    /\ styles[1][2].style_type = "FILL"
    /\ FailingStyle(fileData[1].document, styles[1][1])
    /\ TokenOfStyle(rawTokens[1].colors, styles[1][2])

\* the COLOR variables that have a value under their first mode and tokenize to key
CollidingVariables(data, key) ==
    IF data.variables = None THEN <<>>
    ELSE SelectSeq(data.variables[1],
                   LAMBDA e : /\ e[2].resolvedType = "COLOR"
                              /\ e[2].valuesByMode # None
                              /\ e[2].valuesByMode[1] # <<>>
                              /\ tokenizeName(e[2].name) = key)

\* C9: when a FILL style that gives a token and a COLOR variable with a value
\* under its first mode tokenize to the same key, the color stored under that
\* key carries the variable's value, whatever the order of the styles.
C9_VariableOverwritesStyle ==
    exPc = "done" =>
        \A k \in 1..Len(styles[1]) :
            LET style == styles[1][k]
                key   == tokenizeName(style.name)
                vs    == CollidingVariables(fileData[1], key)
            IN  (/\ style.style_type = "FILL"
                 /\ ~FailingStyle(fileData[1].document, style)
                 /\ vs # <<>>)
                => /\ MapHas(rawTokens[1].colors, key)
                   /\ MapGet(rawTokens[1].colors, key).value
                        = figmaColorToHex(vs[Len(vs)][2].valuesByMode[1][1][2])
                   /\ MapGet(rawTokens[1].colors, key).figmaId = Some(vs[Len(vs)][1])

\* a style whose own color differs from the variable's collides with it
C9_Witness ==
    /\ exPc = "done"
    /\ \E k \in 1..Len(styles[1]) :
          LET style == styles[1][k]
              node  == findNodeByStyleId(fileData[1].document, style.node_id)
              vs    == CollidingVariables(fileData[1], tokenizeName(style.name))
          IN  /\ style.style_type = "FILL"
              /\ FirstFillColor(node) # None
              /\ vs # <<>>
              /\ figmaColorToHex(FirstFillColor(node)[1])
                   # figmaColorToHex(vs[Len(vs)][2].valuesByMode[1][1][2])
              /\ MapGet(rawTokens[1].colors, tokenizeName(style.name)).value
                   = figmaColorToHex(vs[Len(vs)][2].valuesByMode[1][1][2])

\* the 14 default entries, written out
DefaultKeys ==
    [i \in 1..14 |->
        <<"s", "p", "a", "c", "e", "-">>
        \o << <<"0">>, <<"1">>, <<"2">>, <<"3">>, <<"4">>, <<"5">>, <<"6">>, <<"7">>,
              <<"8">>, <<"9">>, <<"1", "0">>, <<"1", "1">>, <<"1", "2">>, <<"1", "3">> >>[i]]

DefaultValues ==
    <<0, 4000, 8000, 12000, 16000, 20000, 24000, 32000, 40000, 48000, 64000,
      80000, 96000, 128000>>

NamedSpacing(node) ==
    node.name # None /\ toLowerCase(node.name[1]) = <<"s", "p", "a", "c", "i", "n", "g">>

NoBoxedChild(node) ==
    \/ node.children = None
    \/ \A i \in 1..Len(node.children[1]) : node.children[1][i].absoluteBoundingBox = None

\* C10: with no node named "Spacing" (case-insensitive), or with a Spacing
\* container without a child carrying a bounding box, the spacing tokens are
\* exactly space-0 .. space-13 with the default values, in that order.
C10_SpacingFallback ==
    exPc = "done" =>
        LET document == fileData[1].document
            container == findNodeByName(document, <<"S", "p", "a", "c", "i", "n", "g">>)
        IN  (\/ \A n \in NodesOf(document) : ~NamedSpacing(n)
             \/ container # None /\ NoBoxedChild(container[1]))
            => /\ MapKeys(rawTokens[1].spacing) = DefaultKeys
               /\ [i \in 1..Len(rawTokens[1].spacing) |-> rawTokens[1].spacing[i][2].value]
                    = DefaultValues

\* a Spacing container without boxed children, in a document that also holds
\* a boxed node elsewhere, gave the default scale
C10_Witness ==
    /\ exPc = "done"
    /\ LET document == fileData[1].document
           container == findNodeByName(document, <<"S", "p", "a", "c", "i", "n", "g">>)
       IN  /\ container # None
           /\ NoBoxedChild(container[1])
           /\ \E n \in NodesOf(document) : n.absoluteBoundingBox # None
    /\ MapKeys(rawTokens[1].spacing) = DefaultKeys

----------------------------------------------------------------------------
(* Claims about the sync driver *)

\* the formats with a configured destination, in the order of sync()
ConfiguredFormats ==
    SelectSeq(FormatOrder, LAMBDA f : config.output[f] # None)

SyncSettled == syncPc \in {"complete", "failed"}

\* C2: when the write of one configured destination fails during sync(), the
\* writes of the remaining configured destinations are still attempted.
C2_RemainingWritesAttempted ==
    (/\ SyncSettled
     /\ \E f \in Formats : run.results[f] = "threw")
    => \A j \in 1..Len(ConfiguredFormats) :
          \E k \in 1..Len(run.attempted) : run.attempted[k] = ConfiguredFormats[j]

\* C3: once the document fetch or the style-list fetch of a run has returned
\* a non-success response, no further fetch is made, no token is extracted,
\* no format is serialized, no file and no recorded fingerprint changes, and
\* sync() fails with the error of that response.
C3_FetchFailureAborts ==
    (/\ syncPc # "idle"
     /\ \E i \in 1..Len(responses) : ~responses[i])
    => /\ \A i \in 1..Len(responses) : responses[i] <=> i < Len(responses)
       /\ rawTokens = None
       /\ syncTokens = None
       /\ run.snapshot = None
       /\ run.attempted = <<>>
       /\ \A f \in Formats : run.contents[f] = None
       /\ files = run.filesAtStart
       /\ previousHashes = run.hashesAtStart
       /\ \A i \in Slots : calls[i].pc = "idle"
       /\ syncPc \in {"extract", "failed"}
       /\ syncPc = "failed" => syncError = Some("Figma API error: Forbidden")

\* the style-list fetch of a second run failed after the first run had
\* written files, and sync() has rejected
C3_Witness ==
    /\ syncPc = "failed"
    /\ responses = <<TRUE, FALSE>>
    /\ syncError = Some("Figma API error: Forbidden")
    /\ run.n = 2
    /\ \E p \in Paths : files[p] # None

\* C4: two completed sync runs that fetched the same document and the same
\* style list produced the same content for every configured destination.
C4_SyncDeterministic ==
    (/\ syncPc = "complete"
     /\ prev # None
     /\ prev[1].pc = "complete"
     /\ prev[1].fetched = <<fileData, styles>>)
    => \A f \in Formats :
          config.output[f] # None => run.contents[f] = prev[1].run.contents[f]

\* C5: for a destination that one completed run wrote and the next completed
\* run skipped as unchanged, what the two runs report differs.
C5_UnchangedReportedDistinctly ==
    (/\ syncPc = "complete"
     /\ prev # None
     /\ prev[1].pc = "complete")
    => \A f \in Formats :
          (/\ prev[1].run.results[f] = "true"
           /\ run.results[f] = "false")
          => /\ run.reports[f] # prev[1].run.reports[f]
             /\ log # prev[1].log

\* C7: a sync() run calls extract() exactly once; the formats it serializes
\* and writes are the configured ones, in order, each serialized from the
\* snapshot extract() returned; formats without a destination are neither
\* serialized nor written; the snapshot sync() holds stays the one returned.
C7_SingleSnapshot ==
    syncPc # "idle" =>
        /\ exCalls = run.exCallsStart + 1
        /\ syncTokens # None => syncTokens = run.snapshot
        /\ Len(run.attempted) <= Len(ConfiguredFormats)
        /\ \A k \in 1..Len(run.attempted) :
              /\ run.attempted[k] = ConfiguredFormats[k]
              /\ run.snapshot # None
              /\ run.contents[run.attempted[k]]
                   = Some(Serialize(run.attempted[k], run.snapshot[1]))
        /\ \A f \in Formats :
              (\A k \in 1..Len(run.attempted) : run.attempted[k] # f)
              => /\ run.contents[f] = None
                 /\ run.results[f] = "none"
        /\ calls[1].op = "write" =>
              /\ Some(calls[1].filePath) = config.output[syncFormat]
              /\ Some(calls[1].content) = run.contents[syncFormat]
        /\ syncPc = "complete" =>
              /\ run.attempted = ConfiguredFormats
              /\ \A f \in Formats :
                    config.output[f] # None => files[config.output[f][1]] = run.contents[f]

\* a run configured for css and scss only has completed, having written both
C7_Witness ==
    /\ syncPc = "complete"
    /\ config.output.tailwind = None
    /\ run.attempted = <<"css", "scss">>
    /\ run.results["css"] = "true"
    /\ run.results["scss"] = "true"
    /\ files[TailwindPath] = None

----------------------------------------------------------------------------
(* Claims about the resolver and the tokenizer *)

\* the nodes of a tree in depth-first pre-order
RECURSIVE PreOrder(_)
RECURSIVE PreOrderAll(_)
PreOrderAll(nodes) ==
    IF nodes = <<>> THEN <<>> ELSE PreOrder(nodes[1]) \o PreOrderAll(Tail(nodes))

PreOrder(node) ==
    <<node>> \o (IF node.children = None THEN <<>> ELSE PreOrderAll(node.children[1]))

\* the depth of the shallowest node of a tree that binds styleId (0: the
\* root), or -1
RECURSIVE BindingDepth(_, _)
BindingDepth(node, styleId) ==
    IF Binds(node, styleId) THEN 0
    ELSE LET kids == IF node.children = None THEN <<>> ELSE node.children[1]
             ds   == {BindingDepth(kids[k], styleId) : k \in 1..Len(kids)} \ {-1}
         IN  IF ds = {} THEN -1 ELSE 1 + CHOOSE d \in ds : \A e \in ds : d <= e

\* C11: every lookup of a style identifier returned the first node in
\* depth-first pre-order that binds the identifier, and returned null, without
\* an error, exactly when no node of the tree binds it.
C11_ResolverPreOrder ==
    exPc = "done" =>
        /\ exError = None
        /\ \A k \in 1..Len(resolved) :
              LET binders == SelectSeq(PreOrder(fileData[1].document),
                                       LAMBDA n : Binds(n, resolved[k][1]))
              IN  resolved[k][2] = IF binders = <<>> THEN None ELSE Some(binders[1])

\* a lookup returned a node at depth 2 although a node at depth 1, later in
\* pre-order, binds the same identifier; another lookup returned null
C11_Witness ==
    /\ exPc = "done"
    /\ \E k \in 1..Len(resolved) :
          /\ resolved[k][2] # None
          /\ BindingDepth(fileData[1].document, resolved[k][1]) = 1
          /\ \A j \in 1..Len(fileData[1].document.children[1]) :
                fileData[1].document.children[1][j] # resolved[k][2][1]
    /\ \E k \in 1..Len(resolved) : resolved[k][2] = None

----------------------------------------------------------------------------
(* Claims about the serializers *)

\* s occurs in line
Contains(line, s) ==
    \E i \in 1..(Len(line) - Len(s) + 1) : SubSeq(line, i, i + Len(s) - 1) = s

\* s occurs in some line of text
Mentions(text, s) == \E k \in 1..Len(text) : Contains(text[k], s)

\* sync() has just serialized the snapshot for `format` and handed the
\* result to write()
JustSerialized(format) ==
    /\ syncPc = "write"
    /\ syncFormat = format
    /\ calls[1].op = "write"
    /\ calls[1].pc = "mkdir"

EffectsOfType(type) == SelectSeq(run.snapshot[1].effects, LAMBDA e : e[2].type = type)

\* C12: a blur effect token appears in the CSS, Tailwind and SCSS outputs and
\* has no entry in the JSON output; a shadow effect token appears in all four.
C12_BlurAbsentFromJSON ==
    /\ JustSerialized("css") =>
          /\ \A k \in 1..Len(EffectsOfType("blur")) :
                Mentions(calls[1].content,
                         "--blur-" \o Str(EffectsOfType("blur")[k][1]) \o ": "
                         \o NumStr(EffectsOfType("blur")[k][2].value.blur) \o "px;")
          /\ \A k \in 1..Len(EffectsOfType("shadow")) :
                Mentions(calls[1].content,
                         "--shadow-" \o Str(EffectsOfType("shadow")[k][1]) \o ": ")
    /\ JustSerialized("tailwind") =>
          /\ \A k \in 1..Len(EffectsOfType("blur")) :
                Mentions(calls[1].content,
                         JSONQuote(EffectsOfType("blur")[k][1]) \o ": \""
                         \o NumStr(EffectsOfType("blur")[k][2].value.blur) \o "px\"")
          /\ \A k \in 1..Len(EffectsOfType("shadow")) :
                Mentions(calls[1].content,
                         JSONQuote(EffectsOfType("shadow")[k][1]) \o ": \"")
    /\ JustSerialized("scss") =>
          /\ \A k \in 1..Len(EffectsOfType("blur")) :
                Mentions(calls[1].content,
                         "$blur-" \o Str(EffectsOfType("blur")[k][1]) \o ": "
                         \o NumStr(EffectsOfType("blur")[k][2].value.blur) \o "px;")
          /\ \A k \in 1..Len(EffectsOfType("shadow")) :
                Mentions(calls[1].content,
                         "$shadow-" \o Str(EffectsOfType("shadow")[k][1]) \o ": ")
    /\ JustSerialized("json") =>
          /\ \A k \in 1..Len(EffectsOfType("blur")) :
                ~Mentions(calls[1].content, JSONQuote(EffectsOfType("blur")[k][1]))
          /\ \A k \in 1..Len(EffectsOfType("shadow")) :
                Mentions(calls[1].content,
                         JSONQuote(EffectsOfType("shadow")[k][1]) \o ": {")

\* the JSON output of a token set with a blur and a shadow effect has just
\* been produced, after the other three formats were written
C12_Witness ==
    /\ JustSerialized("json")
    /\ EffectsOfType("blur") # <<>>
    /\ EffectsOfType("shadow") # <<>>
    /\ run.results["css"] = "true"
    /\ run.results["tailwind"] = "true"

\* the texts by which a format's output shows the section of a category
SectionMarkers(format, category) ==
    CASE format = "css" ->
           (CASE category = "colors" -> {"/* Colors */", "--color-"}
              [] category = "typography" -> {"/* Typography */", "--font-"}
              [] category = "spacing" -> {"/* Spacing */", "--spacing-"}
              [] category = "effects" -> {"/* Effects */", "--shadow-", "--blur-"})
      [] format = "tailwind" ->
           (CASE category = "colors" -> {"\"colors\":"}
              [] category = "typography" ->
                   {"\"fontFamily\":", "\"fontSize\":", "\"fontWeight\":",
                    "\"lineHeight\":", "\"letterSpacing\":"}
              [] category = "spacing" -> {"\"spacing\":"}
              [] category = "effects" -> {"\"boxShadow\":", "\"blur\":"})
      [] format = "scss" ->
           (CASE category = "colors" -> {"// Colors", "$color"}
              [] category = "typography" ->
                   {"// Typography", "$font-", "@mixin typography"}
              [] category = "spacing" -> {"// Spacing", "$spacing"}
              [] category = "effects" -> {"// Effects", "$shadow-", "$blur-"})
      [] format = "json" ->
           (CASE category = "colors" -> {"\"color\":"}
              [] category = "typography" -> {"\"typography\":"}
              [] category = "spacing" -> {"\"spacing\":"}
              [] category = "effects" -> {"\"effect\":"})

Categories == {"colors", "typography", "spacing", "effects"}

\* the content just serialized for `format` shows no section of a category
\* for which the snapshot holds no token
OmitsEmptySections(format) ==
    JustSerialized(format) =>
        \A category \in Categories :
            run.snapshot[1][category] = <<>> =>
                \A marker \in SectionMarkers(format, category) :
                    ~Mentions(calls[1].content, marker)

\* C13: each of the four serializers omits the section of a category that has
\* no tokens: the output holds no section, key or block for that category.
C13_EmptySectionsOmitted == \A format \in Formats : OmitsEmptySections(format)

StartsWith(line, s) == Len(line) >= Len(s) /\ SubSeq(line, 1, Len(s)) = s

IsCommentLine(line) ==
    StartsWith(line, "/*") \/ StartsWith(line, " *") \/ StartsWith(line, "//")

\* the comment lines a text opens with
HeaderBlock(text) ==
    LET n == CHOOSE m \in 0..Len(text) :
                /\ \A k \in 1..m : IsCommentLine(text[k])
                /\ m = Len(text) \/ ~IsCommentLine(text[m + 1])
    IN  SubSeq(text, 1, n)

\* the content just serialized for `format` opens with a comment block that
\* states the snapshot's timestamp and file key and a do-not-edit notice
HasHeader(format) ==
    JustSerialized(format) =>
        LET header == HeaderBlock(calls[1].content)
            metadata == run.snapshot[1].metadata
        IN  /\ header # <<>>
            /\ Mentions(header, metadata.lastSynced)
            /\ Mentions(header, metadata.figmaFileKey)
            /\ Mentions(header, "DO NOT EDIT")

\* C14: the output of each of the four serializers carries a header comment
\* block stating the synchronization timestamp, the source file identifier
\* and a generated / do-not-edit notice.
C14_HeaderInEveryOutput == \A format \in Formats : HasHeader(format)

\* C15: each serializer is a function of the token set alone: serializing the
\* snapshot of a completed run again, at whatever the clock then reads, yields
\* the contents the run produced, and two runs holding equal snapshots
\* produced equal contents for every format both serialized, whatever the
\* clock read at each serialization; the only timestamp in a content is the
\* snapshot's own.
C15_SerializersDeterministic ==
    /\ \A f \in Formats :
          /\ (syncPc = "complete" /\ run.contents[f] # None)
                => run.contents[f][1] = Serialize(f, run.snapshot[1])
          /\ JustSerialized(f)
                => \A t \in 0..MaxClock :
                      Mentions(calls[1].content, toISOString(t))
                          => run.snapshot[1].metadata.lastSynced = toISOString(t)
    /\ (prev # None /\ prev[1].run.snapshot # None /\ prev[1].run.snapshot = run.snapshot)
          => \A f \in Formats :
                (prev[1].run.contents[f] # None /\ run.contents[f] # None)
                    => prev[1].run.contents[f] = run.contents[f]

\* two runs held the same snapshot and serialized it for all four formats,
\* one of them at another clock reading than the snapshot was stamped with
C15_Witness ==
    /\ prev # None
    /\ prev[1].run.snapshot # None
    /\ prev[1].run.snapshot = run.snapshot
    /\ \A f \in Formats :
          /\ prev[1].run.contents[f] # None
          /\ run.contents[f] # None
          /\ prev[1].run.serializedAt[f] # run.serializedAt[f]
    /\ run.snapshot[1].metadata.lastSynced = toISOString(0)
    /\ run.serializedAt["json"] = Some(1)

----------------------------------------------------------------------------
(* Claims about tokenizeName *)

AdjacentHyphens(key) == \E i \in 1..(Len(key) - 1) : key[i] = "-" /\ key[i + 1] = "-"

\* C16: the key tokenization produced for a display name holds only
\* characters of [a-z0-9-], no two adjacent hyphens, no hyphen at either end,
\* and tokenizing the key again returns the key.
C16_CanonicalKey ==
    (exPc = "done" /\ rawTokens # None) =>
        \A k \in 1..Len(rawTokens[1].spacing) :
            LET key == rawTokens[1].spacing[k][1]
            IN  /\ \A i \in 1..Len(key) : IsKeyChar(key[i])
                /\ ~AdjacentHyphens(key)
                /\ key # <<>> => key[1] # "-" /\ key[Len(key)] # "-"
                /\ tokenizeName(key) = key

\* a name that opens with two separators and ends in a stripped character
\* was tokenized to a one-letter key
C16_Witness ==
    /\ exPc = "done"
    /\ rawTokens # None
    /\ \E k \in 1..Len(rawTokens[1].spacing) :
          /\ rawTokens[1].spacing[k][2].name = <<"/", " ", "A">>
          /\ rawTokens[1].spacing[k][1] = <<"a">>

----------------------------------------------------------------------------
(* Claims about the configuration *)

TokenCategories(tokens) ==
    <<tokens.colors, tokens.typography, tokens.spacing, tokens.effects>>

----------------------------------------------------------------------------
(* Claims about failed writes *)

\* the operation the caller took last was a write whose fs.writeFile rejected
\* (the hash had been computed, so fs.mkdir had resolved)
FileWriteFailed(op) == op.op = "write" /\ op.threw /\ op.newHash # None

\* C18: when fs.writeFile rejects inside write(p, c), write() rejects and the
\* fingerprints are what they were when it was called; a write(p, c) that
\* follows with the same content is not skipped as unchanged: it reaches
\* fs.writeFile again and, when it returns, returns true with the file
\* holding c.
C18_FailedWriteRetried ==
    LET f == calls[1] IN
    /\ (f.op = "write" /\ f.pc = "threw" /\ f.newHash # None)
          => /\ previousHashes = round0.previousHashes
             /\ previousHashes[f.filePath] # f.newHash
    /\ (/\ f.op = "write"
        /\ FileWriteFailed(lastOp)
        /\ lastOp.filePath = f.filePath
        /\ lastOp.content = f.content)
          => /\ f.pc = "returned" => (f.result = TRUE /\ files[f.filePath] = Some(f.content))
             /\ f.pc = "threw" => previousHashes[f.filePath] # Some(hashContent(f.content))

\* the write that follows a write whose fs.writeFile rejected, with the same
\* destination and content, has written the file and returned true
C18_Witness ==
    /\ calls[1].op = "write"
    /\ calls[1].pc = "returned"
    /\ calls[1].result = TRUE
    /\ FileWriteFailed(lastOp)
    /\ lastOp.filePath = calls[1].filePath
    /\ lastOp.content = calls[1].content
    /\ files[calls[1].filePath] = Some(calls[1].content)

----------------------------------------------------------------------------
(* Claims about the write guard under sync() *)

\* C19: the write guard looks only at the fingerprints this OutputWriter
\* recorded: sync() never calls loadExistingHash; a write to a destination
\* without a recorded fingerprint that returns has written the file and
\* returns true, whatever the file held before; and a completed run that
\* started with no fingerprint recorded wrote every configured destination.
C19_GuardUsesOwnFingerprints ==
    /\ \A i \in Slots : calls[i].op # "load"
    /\ (/\ syncPc = "write"
        /\ calls[1].pc = "returned"
        /\ run.hashesAtStart[calls[1].filePath] = None)
          => /\ calls[1].result = TRUE
             /\ files[calls[1].filePath] = Some(calls[1].content)
    /\ (/\ syncPc = "complete"
        /\ \A p \in Paths : run.hashesAtStart[p] = None)
          => \A k \in 1..Len(ConfiguredFormats) :
                run.results[ConfiguredFormats[k]] = "true"

\* the first run of a second DesignTokenSync instance found a destination
\* already holding exactly the content it serialized, and wrote it again
C19_Witness ==
    /\ syncPc = "write"
    /\ calls[1].pc = "returned"
    /\ calls[1].result = TRUE
    /\ run.hashesAtStart[calls[1].filePath] = None
    /\ run.filesAtStart[calls[1].filePath] = Some(calls[1].content)

====
